---- MODULE Spec2Model ----
(***************************************************************************)
(* Model of the defect-detection pipeline:                                 *)
(*   analyze_code         (software_defect_detection/utils/static_analysis)*)
(*   metrics_to_features  (utils/feature_extract)                          *)
(*   load_or_train_model  (utils/feature_extract), called by the Flask     *)
(*                        request handler index (app.py)                   *)
(*   _train_fallback_model (utils/feature_extract)                         *)
(*   _map_promise_to_features, load_promise_datasets                       *)
(*                        (software_defect_detection/utils/promise_ingest) *)
(*   _read_file_storage_to_text (app.py) and the upload decoding of        *)
(*                        streamlit_app.py                                 *)
(*   load_dataset, train_model, main (train_model.py and                   *)
(*                        software_defect_detection/train_model.py)        *)
(*   SoftwareDefectDetector (ml_defect_detection.py)                       *)
(*                                                                         *)
(* Text is a sequence of one-character strings.  Floats are exact          *)
(* rationals n/d in lowest terms.                                          *)
(***************************************************************************)
EXTENDS Integers, Sequences, FiniteSets, TLC

VARIABLES
    \* --- Metric Extractor, one call (analyze_code) ---
    code_text,      \* the argument of analyze_code
    metrics,        \* the returned record, or NoValue before the call
    \* --- Feature Vectorizer, one call (metrics_to_features) ---
    fv_metrics,     \* the argument mapping (any subset of keys)
    fv_row,         \* the returned one-row frame, or NoValue before the call
    \* --- concurrent requests running analyze_code and metrics_to_features ---
    req_text,       \* request -> the uploaded text
    req_pc,         \* request -> position in the handler
    frames,         \* frame -> the local variables of a call of analyze_code
    req_metrics,    \* request -> metrics returned to the handler
    req_row,        \* request -> feature row returned to the handler
    \* --- Model Provider: load_or_train_model called by request handlers ---
    model_path,     \* the path the process passes to load_or_train_model
    file,           \* what is stored at model_path
    fchanges,       \* how often the file was created, replaced or deleted
    h_pc,           \* handler -> position in index / load_or_train_model
    h_exc,          \* handler -> the exception in flight, or "none"
    h_opened,       \* handler -> the file content seen by open()
    h_model,        \* handler -> the object returned, or NoValue
    h_name,         \* handler -> the name returned, or NoValue
    h_failed,       \* handler -> how the load failed in this call, or "none"
    h_read,         \* handler -> this call read the model file
    h_trained,      \* handler -> this call trained a fallback model
    h_after,        \* handler -> the call began after a call had resolved
    resolved,       \* the first resolution returned in the process
    \* --- _train_fallback_model, several calls ---
    entropy,        \* the operating system's entropy pool
    t_pc,           \* call -> position in _train_fallback_model
    t_rng,          \* call -> state of the call's generator
    t_model,        \* call -> the fitted classifier, or NoValue
    t_pred,         \* call -> the predictions made with the classifier
    \* --- Dataset Ingestor (_map_promise_to_features, load_promise_datasets) ---
    df,             \* the frame passed to _map_promise_to_features
    mapped,         \* its result: a frame or the exception raised, or NoValue
    files,          \* file name -> what base_dir holds under that name
    combined,       \* the result of load_promise_datasets, or NoValue
    \* --- upload decoding (Flask handler, Streamlit page) ---
    up_bytes,       \* the byte content of the uploaded file
    up_pos,         \* the position of the upload stream
    up_via,         \* the front end that read the upload, or "none"
    up_text,        \* the text handed to analyze_code, or NoValue
    \* --- the training entry points (train_model.py, main) ---
    tm_entry,       \* which main runs: "src" or "package"
    tm_promise,     \* what load_promise_datasets does when main calls it
    tm_sample,      \* what datasets/sample.csv is
    tm_file0,       \* model/defect_model.pkl when main starts
    tm_file,        \* model/defect_model.pkl now
    tm_pc,          \* the position of main
    tm_df,          \* the local df of main, or NoValue for None
    tm_source,      \* where df comes from: "none", "promise" or "sample"
    tm_sample_read, \* read_csv was called on the sample CSV
    tm_model,       \* the model train_model returned, or NoValue
    tm_exit,        \* the exit status of the process, "none" while it runs
    \* --- SoftwareDefectDetector (ml_defect_detection.py) ---
    sd_target_column, \* self.target_column, as given to the constructor
    sd_columns,     \* df.columns of the frame handed to preprocess_data
    sd_target,      \* what detect_target_column returned, or NoValue
    results,        \* self.results: model name -> stored entry
    best_model,     \* self.best_model: a model object, or PyNone
    best_model_name,\* self.best_model_name: a name, or PyNone
    best_score,     \* self.best_score
    sd_fitted,      \* model -> outcome of its training in the latest call
    sd_calls,       \* number of train_and_evaluate calls so far
    sd_saved        \* what the latest save_best_model did, or NoValue

avars == <<code_text, metrics>>
fvars == <<fv_metrics, fv_row>>
qvars == <<req_text, req_pc, frames, req_metrics, req_row>>
pvars == <<model_path, file, fchanges, h_pc, h_exc, h_opened, h_model, h_name,
           h_failed, h_read, h_trained, h_after, resolved>>
tvars == <<entropy, t_pc, t_rng, t_model, t_pred>>
dvars == <<df, mapped, files, combined>>
uvars == <<up_bytes, up_pos, up_via, up_text>>
kvars == <<tm_entry, tm_promise, tm_sample, tm_file0, tm_file, tm_pc, tm_df,
           tm_source, tm_sample_read, tm_model, tm_exit>>
svars == <<sd_target_column, sd_columns, sd_target, results, best_model,
           best_model_name, best_score, sd_fitted, sd_calls, sd_saved>>
vars == <<avars, fvars, qvars, pvars, tvars, dvars, uvars, kvars, svars>>

NoValue == [none |-> TRUE]

(***************************************************************************)
(* Characters and character classes (ASCII part of Python's str / re).     *)
(***************************************************************************)
LowerLetters ==
    {"a","b","c","d","e","f","g","h","i","j","k","l","m",
     "n","o","p","q","r","s","t","u","v","w","x","y","z"}

UpperLetters ==
    {"A","B","C","D","E","F","G","H","I","J","K","L","M",
     "N","O","P","Q","R","S","T","U","V","W","X","Y","Z"}

Digits == {"0","1","2","3","4","5","6","7","8","9"}

\* re: \w
IsWordCh(c) == c \in LowerLetters \cup UpperLetters \cup Digits \cup {"_"}

\* re: \s, and the characters str.strip() removes
IsSpace(c) == c \in {" ", "\t", "\n", "\r", "\f"}

\* str.splitlines() line boundaries
IsLineBreak(c) == c \in {"\n", "\r", "\f"}

\* re.IGNORECASE folding of one character
LowerPairs ==
    <<  <<"A","a">>, <<"B","b">>, <<"C","c">>, <<"D","d">>, <<"E","e">>,
        <<"F","f">>, <<"G","g">>, <<"H","h">>, <<"I","i">>, <<"J","j">>,
        <<"K","k">>, <<"L","l">>, <<"M","m">>, <<"N","n">>, <<"O","o">>,
        <<"P","p">>, <<"Q","q">>, <<"R","r">>, <<"S","s">>, <<"T","t">>,
        <<"U","u">>, <<"V","v">>, <<"W","w">>, <<"X","x">>, <<"Y","y">>,
        <<"Z","z">> >>

Lower(c) ==
    IF c \in UpperLetters
    THEN LET k == CHOOSE k \in 1..Len(LowerPairs) : LowerPairs[k][1] = c
         IN  LowerPairs[k][2]
    ELSE c

\* the character at 1-based position i, "" outside the text
At(s, i) == IF i >= 1 /\ i <= Len(s) THEN s[i] ELSE ""

\* re: \b between position i-1 and position i
WordBoundary(s, i) == IsWordCh(At(s, i - 1)) # IsWordCh(At(s, i))

\* a literal matches at position i
MatchLit(s, i, lit) == \A k \in 1..Len(lit) : At(s, i + k - 1) = lit[k]

\* a literal match that ignores the IGNORECASE flag
MatchLitCaseSensitive(s, i, lit) ==
    \A k \in 1..Len(lit) : At(s, i + k - 1) = lit[k]

\* a literal matches at position i under re.IGNORECASE
MatchLitNoCase(s, i, lit) ==
    \A k \in 1..Len(lit) : Lower(At(s, i + k - 1)) = Lower(lit[k])

\* greedy \s* from position i: the first position that is not whitespace
RECURSIVE SkipSpace(_, _)
SkipSpace(s, i) ==
    IF i <= Len(s) /\ IsSpace(s[i]) THEN SkipSpace(s, i + 1) ELSE i

\* greedy \w* from position i: the first position that is not a word character
RECURSIVE SkipWord(_, _)
SkipWord(s, i) ==
    IF i <= Len(s) /\ IsWordCh(s[i]) THEN SkipWord(s, i + 1) ELSE i

(***************************************************************************)
(* Floats as exact rationals.                                              *)
(***************************************************************************)
RECURSIVE Gcd(_, _)
Gcd(a, b) == IF b = 0 THEN a ELSE Gcd(b, a % b)

Abs(x) == IF x < 0 THEN -x ELSE x

\* A Python number: an int k, or a float n/d (d > 0) in lowest terms.
PyInt(k) == [t |-> "int", n |-> k, d |-> 1]

Rat(n, d) ==
    LET g == Gcd(Abs(n), d) IN [t |-> "float", n |-> n \div g, d |-> d \div g]

\* float(k) of a count
Float(k) == Rat(k, 1)

\* float(v) of a Python number
ToFloat(v) == [v EXCEPT !.t = "float"]

\* == on Python numbers
NumEq(a, b) == a.n * b.d = b.n * a.d

(***************************************************************************)
(* str.splitlines() and str.strip()                                        *)
(***************************************************************************)
RECURSIVE SplitFrom(_, _, _, _)
SplitFrom(s, i, cur, acc) ==
    IF i > Len(s)
    THEN IF cur = <<>> THEN acc ELSE Append(acc, cur)
    ELSE IF IsLineBreak(s[i])
         THEN LET step == IF s[i] = "\r" /\ At(s, i + 1) = "\n" THEN 2 ELSE 1
              IN  SplitFrom(s, i + step, <<>>, Append(acc, cur))
         ELSE SplitFrom(s, i + 1, Append(cur, s[i]), acc)

splitlines(s) == SplitFrom(s, 1, <<>>, <<>>)

RECURSIVE LastNonSpace(_, _)
LastNonSpace(s, j) ==
    IF j >= 1 /\ IsSpace(s[j]) THEN LastNonSpace(s, j - 1) ELSE j

\* a strip that removes blanks only, as ln.strip(" ") does
RECURSIVE FirstNonBlank(_, _)
FirstNonBlank(s, i) ==
    IF i <= Len(s) /\ s[i] = " " THEN FirstNonBlank(s, i + 1) ELSE i

RECURSIVE LastNonBlank(_, _)
LastNonBlank(s, j) ==
    IF j >= 1 /\ s[j] = " " THEN LastNonBlank(s, j - 1) ELSE j

strip_blanks(s) ==
    LET a == FirstNonBlank(s, 1)
        b == LastNonBlank(s, Len(s))
    IN  IF a > b THEN <<>> ELSE SubSeq(s, a, b)

strip(s) ==
    LET a == SkipSpace(s, 1)
        b == LastNonSpace(s, Len(s))
    IN  IF a > b THEN <<>> ELSE SubSeq(s, a, b)

startswith(s, prefix) == MatchLit(s, 1, prefix)

\* Python's `sub in s`
Contains(s, sub) == \E i \in 1..Len(s) : MatchLit(s, i, sub)

(***************************************************************************)
(* Regular expressions of static_analysis.py.  MatchEnd(pat, s, i) is the  *)
(* position just after the match of pattern pat that starts at position i, *)
(* or 0 when the pattern does not match there.                             *)
(***************************************************************************)

\* CONTROL_KEYWORDS: the alternatives of the group, in the order re tries them
ControlAlternatives ==
    <<  <<"i","f">>, <<"e","l","i","f">>, <<"f","o","r">>,
        <<"w","h","i","l","e">>, <<"a","n","d">>, <<"o","r">>,
        <<"c","a","s","e">>, <<"e","x","c","e","p","t">>,
        <<"c","a","t","c","h">>, <<"&","&">>, <<"|","|">> >>

\* the alternatives of \b(TODO|FIXME)\b
TodoAlternatives ==
    <<  <<"T","O","D","O">>, <<"F","I","X","M","E">> >>

SetMin(S) == CHOOSE x \in S : \A y \in S : x <= y

SetMax(S) == CHOOSE x \in S : \A y \in S : x >= y

\* \b(alt1|alt2|...)\b : the first alternative that matches and is followed by \b
MatchEndAlternatives(alts, nocase, s, i) ==
    LET ok == {k \in 1..Len(alts) :
                  /\ IF nocase THEN MatchLitNoCase(s, i, alts[k])
                               ELSE MatchLit(s, i, alts[k])
                  /\ WordBoundary(s, i + Len(alts[k]))}
    IN  IF WordBoundary(s, i) /\ ok # {}
        THEN i + Len(alts[SetMin(ok)])
        ELSE 0

\* \b<kw>\s+\w+\s*\(
MatchEndSignature(kw, s, i) ==
    LET j1 == i + Len(kw)
        j2 == SkipSpace(s, j1)
        j3 == SkipWord(s, j2)
        j4 == SkipSpace(s, j3)
    IN  IF /\ WordBoundary(s, i)
           /\ MatchLit(s, i, kw)
           /\ j2 > j1
           /\ j3 > j2
           /\ At(s, j4) = "("
        THEN j4 + 1
        ELSE 0

\* the first position >= i that holds "\n" (the only character . refuses)
RECURSIVE FirstNewline(_, _)
FirstNewline(s, i) ==
    IF i <= Len(s) /\ s[i] # "\n" THEN FirstNewline(s, i + 1) ELSE i

\* \b\w+\s+\w+\s*\(.*\)\s*\{   (.* is greedy: the last fitting ")" wins)
MatchEndCLike(s, i) ==
    LET j1 == SkipWord(s, i)
        j2 == SkipSpace(s, j1)
        j3 == SkipWord(s, j2)
        j4 == SkipSpace(s, j3)
        eol == FirstNewline(s, j4 + 1)
        closers == {p \in (j4 + 1)..(eol - 1) :
                       /\ s[p] = ")"
                       /\ At(s, SkipSpace(s, p + 1)) = "{"}
    IN  IF /\ WordBoundary(s, i)
           /\ j1 > i
           /\ j2 > j1
           /\ j3 > j2
           /\ At(s, j4) = "("
           /\ closers # {}
        THEN SkipSpace(s, SetMax(closers) + 1) + 1
        ELSE 0

MatchEnd(pat, s, i) ==
    CASE pat = "control"  -> MatchEndAlternatives(ControlAlternatives, FALSE, s, i)
      [] pat = "todo"     -> MatchEndAlternatives(TodoAlternatives, TRUE, s, i)
      [] pat = "def"      -> MatchEndSignature(<<"d","e","f">>, s, i)
      [] pat = "function" ->
             MatchEndSignature(<<"f","u","n","c","t","i","o","n">>, s, i)
      [] pat = "clike"    -> MatchEndCLike(s, i)

\* len(pattern.findall(s)): leftmost, non-overlapping matches from position i
RECURSIVE FindallCount(_, _, _)
FindallCount(pat, s, i) ==
    IF i > Len(s)
    THEN 0
    ELSE LET e == MatchEnd(pat, s, i)
         IN  IF e > 0
             THEN 1 + FindallCount(pat, s, e)
             ELSE FindallCount(pat, s, i + 1)

(***************************************************************************)
(* analyze_code                                                            *)
(***************************************************************************)
\* a comment test that forgets strip(): an indented marker is not seen
IsCommentLineNoStrip(ln) ==
    \/ startswith(ln, <<"#">>)
    \/ startswith(ln, <<"/","/">>)
    \/ Contains(ln, <<"/","*">>)

\* the condition of the comment loop for one line
IsCommentLine(ln) ==
    LET stripped == strip(ln)
    IN  \/ startswith(stripped, <<"#">>)
        \/ startswith(stripped, <<"/","/">>)
        \/ Contains(stripped, <<"/","*">>)

function_patterns == <<"def", "function", "clike">>

\* a total over the stripped lines: surrounding blanks are not counted
RECURSIVE SumLenStripped(_, _)
SumLenStripped(lns, k) ==
    IF k > Len(lns) THEN 0 ELSE Len(strip(lns[k])) + SumLenStripped(lns, k + 1)

RECURSIVE SumLen(_, _)
SumLen(lns, k) == IF k > Len(lns) THEN 0 ELSE Len(lns[k]) + SumLen(lns, k + 1)

\* a count that stops at the first pattern that matches: a signature that
\* two patterns match is counted once
RECURSIVE SumFunctionsFirstOnly(_, _)
SumFunctionsFirstOnly(s, k) ==
    IF k > Len(function_patterns)
    THEN 0
    ELSE LET c == FindallCount(function_patterns[k], s, 1)
         IN  IF c > 0 THEN c ELSE SumFunctionsFirstOnly(s, k + 1)

RECURSIVE SumFunctions(_, _)
SumFunctions(s, k) ==
    IF k > Len(function_patterns)
    THEN 0
    ELSE FindallCount(function_patterns[k], s, 1) + SumFunctions(s, k + 1)

\* a filter that forgets strip(): a blank line of spaces counts as non-empty
IsNonEmptyLineNoStrip(ln) == ln # <<>>

\* the filter of non_empty_lines: `if ln.strip()`
IsNonEmptyLine(ln) == strip(ln) # <<>>

analyze_code(text) ==
    LET lines == splitlines(text)
        non_empty_lines == SelectSeq(lines, IsNonEmptyLine)
        loc == Float(Len(non_empty_lines))
        num_comments == Len(SelectSeq(lines, IsCommentLine))
        num_functions == SumFunctions(text, 1)
        cyclomatic == Float(FindallCount("control", text, 1) + 1)
        avg_line_length ==
            IF non_empty_lines # <<>>
            THEN Rat(SumLen(non_empty_lines, 1), Len(non_empty_lines))
            ELSE Float(0)
        num_todos == Float(FindallCount("todo", text, 1))
    IN  [loc |-> loc,
         num_comments |-> Float(num_comments),
         num_functions |-> Float(num_functions),
         cyclomatic_complexity_estimate |-> cyclomatic,
         avg_line_length |-> avg_line_length,
         num_todos |-> num_todos]

(***************************************************************************)
(* metrics_to_features                                                     *)
(***************************************************************************)
\* a schema with two columns exchanged
FEATURE_COLUMNS_swapped ==
    <<"loc", "num_comments", "num_functions",
      "cyclomatic_complexity_estimate", "num_todos", "avg_line_length">>

FEATURE_COLUMNS ==
    <<"loc", "num_comments", "num_functions",
      "cyclomatic_complexity_estimate", "avg_line_length", "num_todos">>

\* the mutant: the default is taken for every key
GetDefaultOnly(m, key, default) == default

\* dict.get(key, default)
Get(m, key, default) == IF key \in DOMAIN m THEN m[key] ELSE default

\* the one-row frame: its columns and the row's values in column order
metrics_to_features(m) ==
    LET row == [name \in {FEATURE_COLUMNS[k] : k \in 1..Len(FEATURE_COLUMNS)} |->
                   ToFloat(Get(m, name, Float(0)))]
    IN  [columns |-> FEATURE_COLUMNS,
         values |-> [k \in 1..Len(FEATURE_COLUMNS) |-> row[FEATURE_COLUMNS[k]]]]

(***************************************************************************)
(* Inputs.                                                                 *)
(***************************************************************************)
\* the pieces texts are built from
Fragments ==
    {<<"i","f">>, <<"e","l">>, <<"o","r">>, <<"f">>, <<"a">>, <<" ">>,
     <<"\n">>, <<"\r">>, <<"&","&">>, <<"|","|">>, <<"#">>}

\* texts are concatenations of at most MaxFrags fragments
MaxFrags == 3

RECURSIVE Concats(_)
Concats(k) ==
    IF k = 0
    THEN {<<>>}
    ELSE LET prev == Concats(k - 1)
         IN  prev \cup {t \o f : t \in prev, f \in Fragments}

Texts == Concats(MaxFrags)

\* concatenations of at most k fragments of a given set
RECURSIVE ConcatsOf(_, _)
ConcatsOf(frags, k) ==
    IF k = 0
    THEN {<<>>}
    ELSE LET prev == ConcatsOf(frags, k - 1)
         IN  prev \cup {t \o f : t \in prev, f \in frags}

\* pieces of function signatures in the three styles function_patterns seeks
FnFragments ==
    {<<"f","u","n","c","t","i","o","n"," ","f","(">>,
     <<"d","e","f"," ","f","(">>,
     <<"i","n","t"," ","f","(">>,
     <<")">>, <<" ","{">>, <<"f">>, <<" ">>, <<"\n">>}

FnTexts == ConcatsOf(FnFragments, MaxFrags)

\* pieces of comment markers, blanks and line breaks
LineFragments ==
    {<<"#">>, <<"/","/">>, <<"/","*">>, <<"a">>, <<" ">>, <<"\t">>,
     <<"\n">>, <<"\r">>, <<"\f">>}

LineTexts == ConcatsOf(LineFragments, MaxFrags)

\* pieces of TODO / FIXME markers in several cases, and their neighbours
TodoFragments ==
    {<<"T","O","D","O">>, <<"t","o","d","o">>, <<"F","i","x","M","e">>,
     <<"F","I","X","M","E">>, <<"S">>, <<"_">>, <<" ">>, <<"\n">>, <<":">>}

TodoTexts == ConcatsOf(TodoFragments, MaxFrags)

\* metric values range over the ints 0..MaxMetric and one non-integral float
MaxMetric == 1

MetricValues == {PyInt(k) : k \in 0..MaxMetric} \cup {Rat(3, 2)}

SchemaKeys == {FEATURE_COLUMNS[k] : k \in 1..Len(FEATURE_COLUMNS)}

\* every mapping from some of the schema keys to a value
Mappings == UNION {[K -> MetricValues] : K \in SUBSET SchemaKeys}

(***************************************************************************)
(* One call of analyze_code on any text.                                   *)
(***************************************************************************)
InitAnalyzeVars == code_text \in Texts /\ metrics = NoValue

IdleAnalyzeVars == code_text = <<>> /\ metrics = NoValue

Analyze ==
    /\ metrics = NoValue
    /\ metrics' = analyze_code(code_text)
    /\ UNCHANGED <<code_text, fvars, qvars, pvars, tvars, dvars, uvars, kvars, svars>>

(***************************************************************************)
(* One call of metrics_to_features on any mapping.                         *)
(***************************************************************************)
InitFeatureVars == fv_metrics \in Mappings /\ fv_row = NoValue

IdleFeatureVars == fv_metrics = <<>> /\ fv_row = NoValue

Vectorize ==
    /\ fv_row = NoValue
    /\ fv_row' = metrics_to_features(fv_metrics)
    /\ UNCHANGED <<fv_metrics, avars, qvars, pvars, tvars, dvars, uvars, kvars,
                   svars>>

(***************************************************************************)
(* The online path of index (app.py): metrics = analyze_code(code_text),   *)
(* then X = metrics_to_features(metrics).                                  *)
(***************************************************************************)
IndexFeatures ==
    /\ metrics # NoValue
    /\ fv_row = NoValue
    /\ fv_metrics' = metrics
    /\ fv_row' = metrics_to_features(metrics)
    /\ UNCHANGED <<avars, qvars, pvars, tvars, dvars, uvars, kvars, svars>>

(***************************************************************************)
(* Concurrent requests: each handler calls analyze_code, then              *)
(* metrics_to_features (app.py, index).  analyze_code is followed          *)
(* statement by statement; its variables live in the frame of the call.    *)
(***************************************************************************)
\* the number of concurrent requests
NumRequests == 2

Requests == 1..NumRequests

\* the texts the requests upload
PureTexts ==
    {<<>>,
     <<"#", "\n", "i", "f">>,
     <<"a", "\n", "/", "/", "\n", "/", "*">>,
     <<"d", "e", "f", " ", "f", "(">>}

EmptyFrame ==
    [code_text |-> <<>>, lines |-> <<>>, non_empty_lines |-> <<>>,
     num_comments |-> 0, idx |-> 0, num_functions |-> 0, pat |-> 0]

\* one frame of locals for all calls: the locals as module-level globals
SharedFrame(r) == 1

\* the frame of the call request r makes: every call has its own locals
Frame(r) == r

InitPureVars ==
    /\ req_text \in [Requests -> PureTexts]
    /\ req_pc = [r \in Requests |-> "start"]
    /\ frames = [f \in Requests |-> EmptyFrame]
    /\ req_metrics = [r \in Requests |-> NoValue]
    /\ req_row = [r \in Requests |-> NoValue]

IdlePureVars ==
    /\ req_text = <<>>
    /\ req_pc = <<>>
    /\ frames = <<>>
    /\ req_metrics = <<>>
    /\ req_row = <<>>

\* lines 20-26: the call binds code_text, splits it and resets the counter
EnterAnalyze(r) ==
    /\ req_pc[r] = "start"
    /\ frames' = [frames EXCEPT ![Frame(r)] =
          [code_text |-> req_text[r],
           lines |-> splitlines(req_text[r]),
           non_empty_lines |-> SelectSeq(splitlines(req_text[r]), IsNonEmptyLine),
           num_comments |-> 0, idx |-> 1, num_functions |-> 0, pat |-> 0]]
    /\ req_pc' = [req_pc EXCEPT ![r] = "comments"]
    /\ UNCHANGED <<req_text, req_metrics, req_row, avars, fvars, pvars, tvars,
                   dvars, uvars, kvars, svars>>

\* lines 27-30: one iteration of the comment loop
CommentStep(r) ==
    LET fr == frames[Frame(r)] IN
    /\ req_pc[r] = "comments"
    /\ fr.idx <= Len(fr.lines)
    /\ frames' = [frames EXCEPT ![Frame(r)] =
          [fr EXCEPT !.num_comments =
                        IF IsCommentLine(fr.lines[fr.idx]) THEN @ + 1 ELSE @,
                     !.idx = @ + 1]]
    /\ UNCHANGED <<req_text, req_pc, req_metrics, req_row, avars, fvars, pvars, tvars,
                   dvars, uvars, kvars, svars>>

\* lines 33-38: the comment loop ends, the function counter is reset
CommentsDone(r) ==
    LET fr == frames[Frame(r)] IN
    /\ req_pc[r] = "comments"
    /\ fr.idx > Len(fr.lines)
    /\ frames' = [frames EXCEPT ![Frame(r)] =
          [fr EXCEPT !.num_functions = 0, !.pat = 1]]
    /\ req_pc' = [req_pc EXCEPT ![r] = "functions"]
    /\ UNCHANGED <<req_text, req_metrics, req_row, avars, fvars, pvars, tvars,
                   dvars, uvars, kvars, svars>>

\* lines 39-40: one iteration of the pattern loop
FunctionStep(r) ==
    LET fr == frames[Frame(r)] IN
    /\ req_pc[r] = "functions"
    /\ fr.pat >= 1
    /\ fr.pat <= Len(function_patterns)
    /\ frames' = [frames EXCEPT ![Frame(r)] =
          [fr EXCEPT !.num_functions =
                        @ + FindallCount(function_patterns[fr.pat], fr.code_text, 1),
                     !.pat = @ + 1]]
    /\ UNCHANGED <<req_text, req_pc, req_metrics, req_row, avars, fvars, pvars, tvars,
                   dvars, uvars, kvars, svars>>

\* lines 43-62: the remaining metrics and the returned record
ReturnMetrics(r) ==
    LET fr == frames[Frame(r)] IN
    /\ req_pc[r] = "functions"
    /\ fr.pat > Len(function_patterns)
    /\ req_metrics' = [req_metrics EXCEPT ![r] =
          [loc |-> Float(Len(fr.non_empty_lines)),
           num_comments |-> Float(fr.num_comments),
           num_functions |-> Float(fr.num_functions),
           cyclomatic_complexity_estimate |->
               Float(FindallCount("control", fr.code_text, 1) + 1),
           avg_line_length |->
               IF fr.non_empty_lines # <<>>
               THEN Rat(SumLen(fr.non_empty_lines, 1), Len(fr.non_empty_lines))
               ELSE Float(0),
           num_todos |-> Float(FindallCount("todo", fr.code_text, 1))]]
    /\ req_pc' = [req_pc EXCEPT ![r] = "vectorize"]
    /\ UNCHANGED <<req_text, frames, req_row, avars, fvars, pvars, tvars,
                   dvars, uvars, kvars, svars>>

\* app.py line 45: X = metrics_to_features(metrics)
VectorizeRequest(r) ==
    /\ req_pc[r] = "vectorize"
    /\ req_row' = [req_row EXCEPT ![r] = metrics_to_features(req_metrics[r])]
    /\ req_pc' = [req_pc EXCEPT ![r] = "done"]
    /\ UNCHANGED <<req_text, frames, req_metrics, avars, fvars, pvars, tvars,
                   dvars, uvars, kvars, svars>>

(***************************************************************************)
(* Model Provider.  Request handlers (Flask runs each request on its own   *)
(* thread) call load_or_train_model(model_path) and then model.predict.    *)
(* The file at model_path is written by other programs (train_model.py     *)
(* writes it in place) while the server runs.                              *)
(***************************************************************************)
\* the number of request handlers
NumHandlers == 2

Handlers == 1..NumHandlers

\* how often the environment changes the file
MaxFileChanges == 1

\* the model paths of the two Flask apps, as path components
Paths ==
    {<<"model", "defect_model.pkl">>,
     <<"software_defect_detection", "model", "defect_model.pkl">>}

\* What can be stored at the path:
\*   absent        no file
\*   unreadable    a file open() refuses
\*   truncated     a pickle whose writer has not finished
\*   corrupt       bytes that are no pickle
\*   incompatible  a pickle of a class this process cannot import
\*   classifier    a pickled classifier
\*   other_object  a valid pickle of an object without predict
FileKinds ==
    {"absent", "unreadable", "truncated", "corrupt", "incompatible",
     "classifier", "other_object"}

\* id tells one written content from another
Content(kind, id) ==
    [kind |-> kind, id |-> IF kind \in {"classifier", "other_object"} THEN id ELSE 0]

NoContent == [kind |-> "none", id |-> 0]

\* the first component of a path, where the last one is wanted
FirstComponent(path) == path[1]

\* os.path.basename
basename(path) == path[Len(path)]

\* f"Loaded saved model ({os.path.basename(model_path)})"
LoadedName(path) == [text |-> "Loaded saved model", base |-> basename(path)]

FallbackName == [text |-> "Fallback RandomForest (synthetic)", base |-> ""]

\* the object pickle.load returns for a content that deserializes
Unpickled(c) ==
    [origin |-> "file", id |-> c.id, predict |-> c.kind = "classifier"]

\* the object _train_fallback_model returns
FallbackModel == [origin |-> "fallback", id |-> 0, predict |-> TRUE]

\* the exception pickle.load raises on a content, "none" if it deserializes
LoadError(c) ==
    CASE c.kind = "truncated"    -> "EOFError"
      [] c.kind = "corrupt"      -> "UnpicklingError"
      [] c.kind = "incompatible" -> "ModuleNotFoundError"
      [] OTHER                   -> "none"

\* an except clause that names OSError only
CaughtOSErrorOnly(e) == e \in {"FileNotFoundError", "PermissionError"}

\* `except Exception`: every exception class raised here derives from Exception
Caught(e) ==
    e \in {"FileNotFoundError", "PermissionError", "EOFError",
           "UnpicklingError", "ModuleNotFoundError"}

InitProviderVars ==
    /\ model_path \in Paths
    /\ file \in {Content(k, 0) : k \in FileKinds}
    /\ fchanges = 0
    /\ h_pc = [h \in Handlers |-> "idle"]
    /\ h_exc = [h \in Handlers |-> "none"]
    /\ h_opened = [h \in Handlers |-> NoContent]
    /\ h_model = [h \in Handlers |-> NoValue]
    /\ h_name = [h \in Handlers |-> NoValue]
    /\ h_failed = [h \in Handlers |-> "none"]
    /\ h_read = [h \in Handlers |-> FALSE]
    /\ h_trained = [h \in Handlers |-> FALSE]
    /\ h_after = [h \in Handlers |-> FALSE]
    /\ resolved = NoValue

\* another program creates, replaces, rewrites or deletes the file
FileChange ==
    /\ fchanges < MaxFileChanges
    /\ fchanges' = fchanges + 1
    /\ \E k \in FileKinds :
          /\ file' = Content(k, fchanges + 1)
          /\ file' # file
    /\ UNCHANGED <<model_path, h_pc, h_exc, h_opened, h_model, h_name, h_failed,
                   h_read, h_trained, h_after, resolved, avars, fvars, qvars, tvars,
                   dvars, uvars, kvars, svars>>

\* app.py line 48: the handler calls load_or_train_model(model_path)
BeginCall(h) ==
    /\ h_pc[h] = "idle"
    /\ h_pc' = [h_pc EXCEPT ![h] = "exists"]
    /\ h_after' = [h_after EXCEPT ![h] = (resolved # NoValue)]
    /\ UNCHANGED <<model_path, file, fchanges, h_exc, h_opened, h_model, h_name,
                   h_failed, h_read, h_trained, resolved, avars, fvars, qvars, tvars,
                   dvars, uvars, kvars, svars>>

\* line 54: if os.path.exists(model_path)
CheckExists(h) ==
    /\ h_pc[h] = "exists"
    /\ IF file.kind # "absent"
       THEN /\ h_pc' = [h_pc EXCEPT ![h] = "open"]
            /\ UNCHANGED h_failed
       ELSE /\ h_pc' = [h_pc EXCEPT ![h] = "train"]
            /\ h_failed' = [h_failed EXCEPT ![h] = "absent"]
    /\ UNCHANGED <<model_path, file, fchanges, h_exc, h_opened, h_model, h_name,
                   h_read, h_trained, h_after, resolved, avars, fvars, qvars, tvars,
                   dvars, uvars, kvars, svars>>

\* line 55: with open(model_path, 'rb') as f
OpenFile(h) ==
    /\ h_pc[h] = "open"
    /\ IF file.kind \in {"absent", "unreadable"}
       THEN /\ h_exc' = [h_exc EXCEPT ![h] =
                   IF file.kind = "absent" THEN "FileNotFoundError"
                                           ELSE "PermissionError"]
            /\ h_pc' = [h_pc EXCEPT ![h] = "except"]
            /\ UNCHANGED h_opened
       ELSE /\ h_opened' = [h_opened EXCEPT ![h] = file]
            /\ h_pc' = [h_pc EXCEPT ![h] = "load"]
            /\ UNCHANGED h_exc
    /\ UNCHANGED <<model_path, file, fchanges, h_model, h_name, h_failed, h_read,
                   h_trained, h_after, resolved, avars, fvars, qvars, tvars,
                   dvars, uvars, kvars, svars>>

\* What the open file yields when it is read: the content seen by open(), or
\* the present content when the file was rewritten in place meanwhile.
Readable(h) ==
    {h_opened[h]} \cup
        (IF file.kind \in {"absent", "unreadable"} THEN {} ELSE {file})

\* lines 56-57: model = pickle.load(f); the with block closes f;
\* return model, "Loaded saved model (...)"
PickleLoad(h) ==
    /\ h_pc[h] = "load"
    /\ h_read' = [h_read EXCEPT ![h] = TRUE]
    /\ h_opened' = [h_opened EXCEPT ![h] = NoContent]
    /\ \E c \in Readable(h) :
          IF LoadError(c) # "none"
          THEN /\ h_exc' = [h_exc EXCEPT ![h] = LoadError(c)]
               /\ h_pc' = [h_pc EXCEPT ![h] = "except"]
               /\ UNCHANGED <<h_model, h_name, resolved>>
          ELSE /\ h_model' = [h_model EXCEPT ![h] = Unpickled(c)]
               /\ h_name' = [h_name EXCEPT ![h] = LoadedName(model_path)]
               /\ h_pc' = [h_pc EXCEPT ![h] = "returned"]
               /\ resolved' =
                     IF resolved = NoValue
                     THEN [model |-> Unpickled(c), name |-> LoadedName(model_path)]
                     ELSE resolved
               /\ UNCHANGED h_exc
    /\ UNCHANGED <<model_path, file, fchanges, h_failed, h_trained,
                   h_after, avars, fvars, qvars, tvars, dvars, uvars, kvars,
                   svars>>

\* lines 58-60: except Exception: pass
ExceptClause(h) ==
    /\ h_pc[h] = "except"
    /\ IF Caught(h_exc[h])
       THEN /\ h_pc' = [h_pc EXCEPT ![h] = "train"]
            /\ h_failed' = [h_failed EXCEPT ![h] = h_exc[h]]
            /\ h_exc' = [h_exc EXCEPT ![h] = "none"]
       ELSE /\ h_pc' = [h_pc EXCEPT ![h] = "raised"]
            /\ UNCHANGED <<h_failed, h_exc>>
    /\ UNCHANGED <<model_path, file, fchanges, h_opened, h_model, h_name, h_read,
                   h_trained, h_after, resolved, avars, fvars, qvars, tvars,
                   dvars, uvars, kvars, svars>>

\* lines 62-63: model = _train_fallback_model(); return model, "Fallback ..."
TrainFallback(h) ==
    /\ h_pc[h] = "train"
    /\ h_trained' = [h_trained EXCEPT ![h] = TRUE]
    /\ h_model' = [h_model EXCEPT ![h] = FallbackModel]
    /\ h_name' = [h_name EXCEPT ![h] = FallbackName]
    /\ h_pc' = [h_pc EXCEPT ![h] = "returned"]
    /\ resolved' =
          IF resolved = NoValue
          THEN [model |-> FallbackModel, name |-> FallbackName]
          ELSE resolved
    /\ UNCHANGED <<model_path, file, fchanges, h_exc, h_opened, h_failed, h_read,
                   h_after, avars, fvars, qvars, tvars, dvars, uvars, kvars,
                   svars>>

\* app.py line 51: y_pred = model.predict(X)[0]
Predict(h) ==
    /\ h_pc[h] = "returned"
    /\ h_pc' = [h_pc EXCEPT ![h] =
          IF h_model[h].predict THEN "done" ELSE "predict_failed"]
    /\ UNCHANGED <<model_path, file, fchanges, h_exc, h_opened, h_model, h_name,
                   h_failed, h_read, h_trained, h_after, resolved,
                   avars, fvars, qvars, tvars, dvars, uvars, kvars, svars>>

(***************************************************************************)
(* _train_fallback_model.  Feature values are fixed-point numbers in       *)
(* tenths.  The generator's stream of deviates is fixed by its seed; the    *)
(* fitted forest is a function of the training set and its random_state.   *)
(***************************************************************************)
\* the number of calls of _train_fallback_model (in one or several runs)
NumTrainCalls == 2

TrainCalls == 1..NumTrainCalls

\* the entropy pool takes the values 0..MaxEntropy
MaxEntropy == 2

\* line 36: n = 128
SYNTH_N == 128

\* line 43: n_estimators=100
N_ESTIMATORS == 100

\* line 43: random_state=42
RANDOM_STATE == 42

\* np.random.default_rng() without a seed draws its seed from the system
UnseededRng == 1000 + entropy

\* line 35: the seed of np.random.default_rng(42)
RNG_SEED == 42

\* the k-th deviate of the stream of a seed, in tenths (-2.0 .. 2.0)
Deviate(seed, k) == ((((seed + k) * (seed + 3 * k + 7)) % 65537) % 41) - 20

\* rng.normal(size=(n, len(FEATURE_COLUMNS))) from a generator that has made
\* `drawn` draws: the next n * 6 deviates of its stream, row by row
DrawRows(rng, n) ==
    [i \in 1..n |->
        [j \in 1..Len(FEATURE_COLUMNS) |->
            Deviate(rng.seed, rng.drawn + (i - 1) * Len(FEATURE_COLUMNS) + j)]]

\* FEATURE_COLUMNS.index(name)
ColumnIndex(name) == CHOOSE k \in 1..Len(FEATURE_COLUMNS) : FEATURE_COLUMNS[k] = name

\* lines 39-41: complexity + 0.8 * todos + 0.4 * loc > 0.5, on tenths
Label(row) ==
    IF 10 * row[ColumnIndex("cyclomatic_complexity_estimate")]
         + 8 * row[ColumnIndex("num_todos")]
         + 4 * row[ColumnIndex("loc")] > 50
    THEN 1
    ELSE 0

SqDist(a, b) ==
    LET d(k) == (a[k] - b[k]) * (a[k] - b[k])
    IN  d(1) + d(2) + d(3) + d(4) + d(5) + d(6)

\* model.predict: the label of the training row nearest to v (the first such
\* row), standing for the forest grown from (X, y) under random_state
ModelPredict(model, v) ==
    LET rows == 1..Len(model.X)
        dist == [i \in rows |-> SqDist(model.X[i], v)]
        least == SetMin({dist[i] : i \in rows})
        best == SetMin({i \in rows : dist[i] = least})
    IN  model.y[best]

\* the feature vectors predictions are made for
ProbeVectors ==
    {<<0, 0, 0, 0, 0, 0>>,
     <<10, 0, 0, 20, 0, 10>>,
     <<-10, 3, 7, -20, 4, -10>>,
     <<5, -5, 5, 2, -5, 3>>}

InitTrainVars ==
    /\ entropy \in 0..MaxEntropy
    /\ t_pc = [c \in TrainCalls |-> "seed"]
    /\ t_rng = [c \in TrainCalls |-> NoValue]
    /\ t_model = [c \in TrainCalls |-> NoValue]
    /\ t_pred = [c \in TrainCalls |-> NoValue]

\* time passes, another process run starts: the system entropy changes
EntropyChange ==
    /\ entropy' = (entropy + 1) % (MaxEntropy + 1)
    /\ UNCHANGED <<t_pc, t_rng, t_model, t_pred, avars, fvars, qvars, pvars,
                   dvars, uvars, kvars, svars>>

\* line 35: rng = np.random.default_rng(42)
SeedRng(c) ==
    /\ t_pc[c] = "seed"
    /\ t_rng' = [t_rng EXCEPT ![c] =
          [seed |-> RNG_SEED, drawn |-> 0, seeded_at |-> entropy]]
    /\ t_pc' = [t_pc EXCEPT ![c] = "draw"]
    /\ UNCHANGED <<entropy, t_model, t_pred, avars, fvars, qvars, pvars, dvars,
                   uvars, kvars, svars>>

\* lines 36-45: X = rng.normal(size=(n, 6)); y = (... > 0.5).astype(int);
\* model = RandomForestClassifier(...); model.fit(X, y); return model
TrainOnSynthetic(c) ==
    /\ t_pc[c] = "draw"
    /\ LET X == DrawRows(t_rng[c], SYNTH_N)
           y == [i \in 1..Len(X) |-> Label(X[i])]
       IN  t_model' = [t_model EXCEPT ![c] =
              [X |-> X, y |-> y,
               n_estimators |-> N_ESTIMATORS, random_state |-> RANDOM_STATE]]
    /\ t_rng' = [t_rng EXCEPT ![c].drawn = @ + SYNTH_N * Len(FEATURE_COLUMNS)]
    /\ t_pc' = [t_pc EXCEPT ![c] = "fitted"]
    /\ UNCHANGED <<entropy, t_pred, avars, fvars, qvars, pvars, dvars, uvars, kvars,
                   svars>>

\* the caller predicts for feature vectors (app.py line 51)
PredictWith(c) ==
    /\ t_pc[c] = "fitted"
    /\ t_pred' = [t_pred EXCEPT ![c] =
          [v \in ProbeVectors |-> ModelPredict(t_model[c], v)]]
    /\ t_pc' = [t_pc EXCEPT ![c] = "done"]
    /\ UNCHANGED <<entropy, t_rng, t_model, avars, fvars, qvars, pvars, dvars, uvars,
                   kvars, svars>>

(***************************************************************************)
(* Dataset Ingestor: frames and their cells                                *)
(* (software_defect_detection/utils/promise_ingest).                       *)
(*                                                                         *)
(* A frame is a set of column names and a sequence of rows, each row a     *)
(* function from the column names to cells.  A cell is a Python number, a  *)
(* bool, a string (a sequence of characters) or NaN, the missing value.    *)
(***************************************************************************)
NaN == [t |-> "nan"]

\* the quotient of a non-zero float by zero
Inf == [t |-> "inf"]

Str(chars) == [t |-> "str", s |-> chars]

Bool(b) == [t |-> "bool", b |-> b]

IsNumber(c) == c.t \in {"int", "float"}

\* the exception a failed conversion raises inside astype
CastFailure == [t |-> "error"]

DigitSeq == <<"0", "1", "2", "3", "4", "5", "6", "7", "8", "9">>

\* the decimal digits of a natural number
RECURSIVE DecimalDigits(_)
DecimalDigits(k) ==
    IF k < 10
    THEN <<DigitSeq[k + 1]>>
    ELSE DecimalDigits(k \div 10) \o <<DigitSeq[(k % 10) + 1]>>

\* int(s) of a string of decimal digits, read up to its k-th character
RECURSIVE ParseDigits(_, _)
ParseDigits(s, k) ==
    IF k = 0
    THEN 0
    ELSE 10 * ParseDigits(s, k - 1)
             + (CHOOSE v \in 0..9 : DigitSeq[v + 1] = s[k])

IsDigitString(s) == s # <<>> /\ \A k \in 1..Len(s) : s[k] \in Digits

\* Series.astype(str), one cell
AsTypeStr(c) ==
    CASE c.t = "str"  -> c.s
      [] c.t = "nan"  -> <<"n","a","n">>
      [] c.t = "bool" -> IF c.b THEN <<"T","r","u","e">>
                                ELSE <<"F","a","l","s","e">>
      [] c.t = "int"  -> DecimalDigits(c.n)
      [] c.t = "float" -> DecimalDigits(c.n \div c.d) \o <<".">>
                              \o DecimalDigits((10 * (c.n % c.d)) \div c.d)

\* a cell left in the case it was written in
KeepCase(s) == s

\* Series.str.lower(), one cell
LowerStr(s) == [k \in 1..Len(s) |-> Lower(s[k])]

\* Series.map({"true": 1, "false": 0}), one cell: NaN for any other key
MapTrueFalse(s) ==
    IF s = <<"t","r","u","e">> THEN PyInt(1)
    ELSE IF s = <<"f","a","l","s","e">> THEN PyInt(0)
    ELSE NaN

\* Series.astype(int), one cell
AsTypeInt(c) ==
    CASE c.t = "int"   -> c
      [] c.t = "float" -> PyInt(c.n \div c.d)
      [] c.t = "bool"  -> PyInt(IF c.b THEN 1 ELSE 0)
      [] c.t = "str"   -> IF IsDigitString(c.s)
                          THEN PyInt(ParseDigits(c.s, Len(c.s)))
                          ELSE CastFailure
      [] OTHER         -> CastFailure

\* Series.astype(float), one cell
AsTypeFloat(c) ==
    CASE c.t \in {"int", "float"} -> ToFloat(c)
      [] c.t = "bool" -> Float(IF c.b THEN 1 ELSE 0)
      [] c.t = "str"  -> IF IsDigitString(c.s)
                         THEN Float(ParseDigits(c.s, Len(c.s)))
                         ELSE CastFailure
      [] OTHER        -> c

\* a divisor used as it stands: a zero stays a zero
ReplaceNothing(c) == c

\* Series.replace(0, 1), one cell
ReplaceZeroByOne(c) == IF IsNumber(c) /\ c.n = 0 THEN [c EXCEPT !.n = 1] ELSE c

\* the quotient of two float cells
Divide(a, b) ==
    IF a.t # "float" \/ b.t # "float"
    THEN IF CastFailure \in {a, b} THEN CastFailure ELSE NaN
    ELSE IF b.n = 0
         THEN IF a.n = 0 THEN NaN ELSE Inf
         ELSE IF b.n > 0
              THEN Rat(a.n * b.d, a.d * b.n)
              ELSE Rat(0 - (a.n * b.d), a.d * (0 - b.n))

(***************************************************************************)
(* _map_promise_to_features                                                *)
(***************************************************************************)
\* `raise ValueError(...)` at a line of promise_ingest.py, or the ValueError
\* a failed astype raises at that line
Raised(line) == [raised |-> "ValueError", line |-> line]

IsRaised(result) == "raised" \in DOMAIN result

\* the lines that raise the "PROMISE dataset missing ..." errors
SchemaErrorLines == {36, 46, 52}

\* an alias list tried from its last entry to its first
LocAliasesReversed == <<"locCodeAndComment", "lOCode", "loc">>

\* the alias list of loc, tried in this order
LocAliases == <<"loc", "lOCode", "locCodeAndComment">>

\* the alias list of complexity, tried in this order
ComplexityAliases == <<"v(g)", "branchCount">>

\* the chain of df.get(name) / `is None` tests: the first alias that is a
\* column of the frame, or "" when none is
FirstPresent(aliases, cols) ==
    LET present == {k \in 1..Len(aliases) : aliases[k] \in cols}
    IN  IF present = {} THEN "" ELSE aliases[SetMin(present)]

\* the columns of the returned frame: features[[*FEATURE_COLUMNS, "label"]]
OutputColumns == FEATURE_COLUMNS \o <<"label">>

\* pd.Series([0.0] * len(df_local))
DefaultSeries(n) == [r \in 1..n |-> Float(0)]

\* a lookup that returns the default whether or not the column is there
FrameGetDefaultOnly(frame, name, default) == default

\* DataFrame.get(name, default): the column, or the default without it
FrameGet(frame, name, default) ==
    IF name \in frame.columns
    THEN [r \in 1..Len(frame.rows) |-> frame.rows[r][name]]
    ELSE default

map_promise_to_features(frame) ==
    LET cols == frame.columns
        n == Len(frame.rows)
        Cell(name, r) == frame.rows[r][name]
        label ==
            IF "defects" \in cols
            THEN [r \in 1..n |->
                     MapTrueFalse(LowerStr(AsTypeStr(Cell("defects", r))))]
            ELSE IF "label" \in cols
                 THEN [r \in 1..n |-> AsTypeInt(Cell("label", r))]
                 ELSE <<>>
        loc_name == FirstPresent(LocAliases, cols)
        v_g_name == FirstPresent(ComplexityAliases, cols)
        loc == [r \in 1..n |-> Cell(loc_name, r)]
        v_g == [r \in 1..n |-> Cell(v_g_name, r)]
        lOComment == FrameGet(frame, "lOComment", DefaultSeries(n))
        n_total == FrameGet(frame, "n", DefaultSeries(n))
        avg_line_length ==
            [r \in 1..n |->
                Divide(AsTypeFloat(n_total[r]),
                       AsTypeFloat(ReplaceZeroByOne(loc[r])))]
        features ==
            [r \in 1..n |->
                [name \in {OutputColumns[k] : k \in 1..Len(OutputColumns)} |->
                    CASE name = "loc" -> AsTypeFloat(loc[r])
                      [] name = "num_comments" -> AsTypeFloat(lOComment[r])
                      [] name = "num_functions" -> Float(0)
                      [] name = "cyclomatic_complexity_estimate" ->
                             AsTypeFloat(v_g[r])
                      [] name = "avg_line_length" -> avg_line_length[r]
                      [] name = "num_todos" -> Float(0)
                      [] name = "label" -> AsTypeInt(label[r])]]
        Failed(name) == \E r \in 1..n : features[r][name] = CastFailure
    IN  IF "defects" \notin cols /\ "label" \notin cols
        THEN Raised(36)
        ELSE IF "defects" \notin cols /\ \E r \in 1..n : label[r] = CastFailure
        THEN Raised(34)
        ELSE IF loc_name = ""
        THEN Raised(46)
        ELSE IF v_g_name = ""
        THEN Raised(52)
        ELSE IF Failed("avg_line_length")
        THEN Raised(58)
        ELSE IF Failed("loc")
        THEN Raised(61)
        ELSE IF Failed("num_comments")
        THEN Raised(62)
        ELSE IF Failed("cyclomatic_complexity_estimate")
        THEN Raised(64)
        ELSE IF Failed("label")
        THEN Raised(67)
        ELSE [columns |-> OutputColumns, rows |-> features]

(***************************************************************************)
(* load_promise_datasets                                                   *)
(***************************************************************************)
PROMISE_FILENAMES == <<"cm1.csv", "kc1.csv", "kc2.csv", "pc1.csv", "jm1.csv">>

\* what base_dir holds under a name: nothing, a file that cannot be read or
\* parsed, or a CSV file, given by the frame pd.read_csv makes of it
Absent == [kind |-> "absent"]

Unreadable == [kind |-> "unreadable"]

Csv(frame) == [kind |-> "csv", frame |-> frame]

\* os.path.exists(path)
Exists(f) == f.kind # "absent"

\* pd.read_csv(path): the frame, or the exception raised
read_csv(f) == IF f.kind = "csv" THEN f.frame ELSE Raised(85)

\* a loop body whose failure ends the loading: the frames collected so far
\* are lost with the exception
LoopBodyAborting(dataframes, f) ==
    IF ~Exists(f)
    THEN dataframes
    ELSE IF IsRaised(read_csv(f))
         THEN <<>>
         ELSE IF IsRaised(map_promise_to_features(read_csv(f)))
              THEN <<>>
              ELSE Append(dataframes, map_promise_to_features(read_csv(f)))

\* the body of the loop for one name: the list with the mapped frame
\* appended, or the list unchanged after `continue`
LoopBody(dataframes, f) ==
    IF ~Exists(f)
    THEN dataframes
    ELSE LET df_raw == read_csv(f)
         IN  IF IsRaised(df_raw)
             THEN dataframes
             ELSE LET df_mapped == map_promise_to_features(df_raw)
                  IN  IF IsRaised(df_mapped)
                      THEN dataframes
                      ELSE Append(dataframes, df_mapped)

\* the list `dataframes` after the first k names
RECURSIVE LoopUpTo(_, _)
LoopUpTo(dir, k) ==
    IF k = 0
    THEN <<>>
    ELSE LoopBody(LoopUpTo(dir, k - 1), dir[PROMISE_FILENAMES[k]])

\* pd.concat(dataframes, axis=0, ignore_index=True): the rows of the
\* frames from the k-th on, one frame after the other
RECURSIVE ConcatRows(_, _)
ConcatRows(dataframes, k) ==
    IF k > Len(dataframes)
    THEN <<>>
    ELSE dataframes[k].rows \o ConcatRows(dataframes, k + 1)

\* a row dropna() removes: some cell is NaN
HasMissing(row) == \E name \in DOMAIN row : row[name] = NaN

KeepRow(row) == ~HasMissing(row)

\* the value `return None` returns
PyNone == [t |-> "None"]

\* a version without the `if not dataframes` test: pd.concat of an empty
\* list raises
load_promise_datasets_unguarded(dir) ==
    LET dataframes == LoopUpTo(dir, Len(PROMISE_FILENAMES))
    IN  IF dataframes = <<>>
        THEN Raised(94)
        ELSE [columns |-> OutputColumns,
              rows |-> SelectSeq(ConcatRows(dataframes, 1), KeepRow)]

load_promise_datasets(dir) ==
    LET dataframes == LoopUpTo(dir, Len(PROMISE_FILENAMES))
    IN  IF dataframes = <<>>
        THEN PyNone
        ELSE [columns |-> OutputColumns,
              rows |-> SelectSeq(ConcatRows(dataframes, 1), KeepRow)]

(***************************************************************************)
(* Frames given to the ingestor.                                           *)
(***************************************************************************)
\* the column names the mapping looks at, and one it never asks for
AllColumns ==
    {"defects", "label", "loc", "lOCode", "locCodeAndComment", "v(g)",
     "branchCount", "lOComment", "n", "avg_line_length"}

\* the number of rows of a frame
NumRows == 2

\* each column holds its own values, so that the column a value was taken
\* from can be told; the line counts are zero in the second row, label
\* holds integers beyond 0 and 1, and n holds floats
ColumnBase(name) ==
    CASE name = "loc" -> 0
      [] name = "lOCode" -> 10
      [] name = "locCodeAndComment" -> 20
      [] name = "v(g)" -> 30
      [] name = "branchCount" -> 40
      [] name = "lOComment" -> 50
      [] name = "n" -> 60
      [] name = "avg_line_length" -> 70
      [] OTHER -> 80

ColumnCell(name, r) ==
    IF name = "label"
    THEN PyInt((r + 1) % 3)
    ELSE IF r = 2 /\ name \in {"loc", "lOCode", "locCodeAndComment"}
         THEN PyInt(0)
         ELSE IF name = "n"
              THEN Rat(2 * (ColumnBase(name) + r) + 1, 2)
              ELSE PyInt(ColumnBase(name) + r)

\* the cells of a defects column
DefectCells ==
    {Str(<<"T","r","u","e">>), Str(<<"f","a","l","s","e">>),
     Str(<<"T","R","U","E">>)}

\* where the first row has a missing value: nowhere, in the line count
\* column, or in the column the label is taken from
Holes == {"none", "feature", "label"}

HoleColumn(cols, hole) ==
    CASE hole = "feature" -> FirstPresent(LocAliases, cols)
      [] hole = "label" -> FirstPresent(<<"defects", "label">>, cols)
      [] OTHER -> ""

MakeFrame(cols, defects, hole) ==
    [columns |-> cols,
     rows |-> [r \in 1..NumRows |->
                  [name \in cols |->
                      IF r = 1 /\ name = HoleColumn(cols, hole)
                      THEN NaN
                      ELSE IF name = "defects"
                           THEN defects[r]
                           ELSE ColumnCell(name, r)]]]

Frames ==
    {MakeFrame(cols, defects, hole) :
        cols \in SUBSET AllColumns,
        defects \in [1..NumRows -> DefectCells],
        hole \in Holes}

(***************************************************************************)
(* One call of _map_promise_to_features on any frame.                      *)
(***************************************************************************)
InitMapVars == df \in Frames /\ mapped = NoValue

MapFrame ==
    /\ mapped = NoValue
    /\ mapped' = map_promise_to_features(df)
    /\ UNCHANGED <<df, files, combined, avars, fvars, qvars, pvars, tvars, uvars,
                   kvars, svars>>

(***************************************************************************)
(* One call of load_promise_datasets on any directory.                     *)
(***************************************************************************)
\* the number of PROMISE file names under which base_dir may hold a file
NumSources == 2

\* the column sets of the files: a complete one with a defects column, one
\* with a label column and aliases only, and one without a line count
SourceColumnSets ==
    {{"defects", "loc", "v(g)", "lOComment", "n"},
     {"label", "lOCode", "branchCount"},
     {"defects", "v(g)", "n"}}

SourceFrames ==
    {MakeFrame(cols, [r \in 1..NumRows |->
                         IF r % 2 = 1 THEN Str(<<"T","r","u","e">>)
                                      ELSE Str(<<"f","a","l","s","e">>)],
               hole) :
        cols \in SourceColumnSets, hole \in Holes}

FileStates == {Absent, Unreadable} \cup {Csv(f) : f \in SourceFrames}

Directories ==
    {dir \in [{PROMISE_FILENAMES[k] : k \in 1..Len(PROMISE_FILENAMES)}
                 -> FileStates] :
        \A k \in (NumSources + 1)..Len(PROMISE_FILENAMES) :
            dir[PROMISE_FILENAMES[k]] = Absent}

InitLoadVars == files \in Directories /\ combined = NoValue

LoadDatasets ==
    /\ combined = NoValue
    /\ combined' = load_promise_datasets(files)
    /\ UNCHANGED <<df, mapped, files, avars, fvars, qvars, pvars, tvars, uvars,
                   kvars, svars>>

(***************************************************************************)
(* Upload decoding: _read_file_storage_to_text (app.py and                 *)
(* software_defect_detection/app.py) and the upload block of the Streamlit *)
(* page (streamlit_app.py).  Bytes are numbers 0..255, decoded text is a   *)
(* sequence of code points.                                                *)
(***************************************************************************)
\* the exception bytes.decode("utf-8") raises
UnicodeDecodeError == [raised |-> "UnicodeDecodeError"]

IsContinuation(b) == b >= 128 /\ b <= 191

\* the number of continuation bytes a lead byte asks for, -1 for a byte
\* that cannot lead
Trail(b) ==
    IF b < 128 THEN 0
    ELSE IF b >= 194 /\ b <= 223 THEN 1
    ELSE IF b >= 224 /\ b <= 239 THEN 2
    ELSE IF b >= 240 /\ b <= 244 THEN 3
    ELSE -1

\* the sequence starting at position i is well formed: enough continuation
\* bytes, no overlong form, no surrogate, nothing beyond U+10FFFF
WellFormedAt(raw, i) ==
    LET b == raw[i]
        k == Trail(b)
    IN  /\ k >= 0
        /\ i + k <= Len(raw)
        /\ \A j \in 1..k : IsContinuation(raw[i + j])
        /\ b = 224 => raw[i + 1] >= 160
        /\ b = 237 => raw[i + 1] <= 159
        /\ b = 240 => raw[i + 1] >= 144
        /\ b = 244 => raw[i + 1] <= 143

\* the code point of the well-formed sequence at position i
CodePointAt(raw, i) ==
    LET b == raw[i]
        k == Trail(b)
    IN  CASE k = 0 -> b
          [] k = 1 -> (b % 32) * 64 + (raw[i + 1] % 64)
          [] k = 2 -> (b % 16) * 4096 + (raw[i + 1] % 64) * 64
                          + (raw[i + 2] % 64)
          [] k = 3 -> (b % 8) * 262144 + (raw[i + 1] % 64) * 4096
                          + (raw[i + 2] % 64) * 64 + (raw[i + 3] % 64)

\* a decoded text: its code points
Text(points) == [text |-> points]

\* the bytes from position i on are well-formed UTF-8
RECURSIVE ValidUtf8From(_, _)
ValidUtf8From(raw, i) ==
    \/ i > Len(raw)
    \/ WellFormedAt(raw, i) /\ ValidUtf8From(raw, i + Trail(raw[i]) + 1)

\* the code points of well-formed UTF-8 from position i on
RECURSIVE PointsFrom(_, _)
PointsFrom(raw, i) ==
    IF i > Len(raw)
    THEN <<>>
    ELSE <<CodePointAt(raw, i)>> \o PointsFrom(raw, i + Trail(raw[i]) + 1)

\* raw.decode("utf-8"): the text, or the error
Utf8Decode(raw) ==
    IF ValidUtf8From(raw, 1) THEN Text(PointsFrom(raw, 1)) ELSE UnicodeDecodeError

\* raw.decode("latin-1", errors="ignore"): byte b is code point b
Latin1Decode(raw) == Text([k \in 1..Len(raw) |-> raw[k]])

\* stream.read(): the bytes from the position of the stream to its end
StreamRead(content, pos) == SubSeq(content, pos + 1, Len(content))

\* the bytes uploads are made of: a, line feed, the two bytes of the UTF-8
\* form of U+00E9, and a byte that occurs in no UTF-8 text
UploadBytes == {97, 10, 195, 169, 255}

\* the longest upload
MaxUpload == 3

Uploads == UNION {[1..k -> UploadBytes] : k \in 0..MaxUpload}

InitUploadVars ==
    /\ up_bytes \in Uploads
    /\ up_pos = 0
    /\ up_via = "none"
    /\ up_text = NoValue

\* _read_file_storage_to_text: one read, both decodings on its result
FlaskUpload ==
    /\ up_via = "none"
    /\ LET raw == StreamRead(up_bytes, up_pos)
           text == Utf8Decode(raw)
       IN  up_text' = IF text = UnicodeDecodeError
                      THEN Latin1Decode(raw)
                      ELSE text
    /\ up_pos' = Len(up_bytes)
    /\ up_via' = "flask"
    /\ UNCHANGED <<up_bytes, avars, fvars, qvars, pvars, tvars, dvars, kvars, svars>>

\* streamlit_app.py: the except clause reads the stream a second time
StreamlitUpload ==
    /\ up_via = "none"
    /\ LET first == StreamRead(up_bytes, up_pos)
           text == Utf8Decode(first)
           second == StreamRead(up_bytes, Len(up_bytes))
       IN  up_text' = IF text = UnicodeDecodeError
                      THEN Latin1Decode(second)
                      ELSE text
    /\ up_pos' = Len(up_bytes)
    /\ up_via' = "streamlit"
    /\ UNCHANGED <<up_bytes, avars, fvars, qvars, pvars, tvars, dvars, kvars, svars>>

(***************************************************************************)
(* The training entry points: main, load_dataset and train_model of        *)
(* train_model.py and main of software_defect_detection/train_model.py.    *)
(* A dataset is given by what the code tests of it: its number of rows,    *)
(* its number of label classes, and whether features are missing or        *)
(* infinite.                                                               *)
(***************************************************************************)
\* `if len(df) < 10` in train_model
MIN_ROWS == 10

Dataset(rows, classes, nan, inf) ==
    [rows |-> rows, classes |-> classes, nan |-> nan, inf |-> inf]

IsDataset(x) == "rows" \in DOMAIN x

RowCounts == {0, MIN_ROWS - 1, MIN_ROWS}

\* the frames load_promise_datasets can return: dropna() has removed the
\* rows with missing values
PromiseFrames ==
    {Dataset(0, 0, "none", FALSE)}
        \cup {Dataset(rows, classes, "none", inf) :
                 rows \in RowCounts \ {0}, classes \in {1, 2},
                 inf \in BOOLEAN}

\* what the call of load_promise_datasets does: it returns None or a
\* frame, or it raises
PromiseOutcomes == {PyNone, Raised(146)} \cup PromiseFrames

\* datasets/sample.csv: absent, not readable as CSV, or a CSV with or
\* without the required columns; features are missing in no cell, in some
\* cells or in every cell of a column
SampleFiles ==
    {[kind |-> "absent"], [kind |-> "unreadable"]}
        \cup {[kind |-> "csv", columns_ok |-> ok, data |-> data] :
                 ok \in BOOLEAN,
                 data \in {Dataset(0, 0, "none", FALSE)}
                     \cup {Dataset(rows, classes, nan, inf) :
                              rows \in RowCounts \ {0}, classes \in {1, 2},
                              nan \in {"none", "some", "all"},
                              inf \in BOOLEAN}}

\* the model file: absent, a pickled model, or a file cut off in writing
NoFile == [kind |-> "absent"]

ModelFile(id) == [kind |-> "model", id |-> id]

TruncatedFile == [kind |-> "truncated"]

\* a test that takes every frame that is not None
UsableNotNone(promise_df) == IsDataset(promise_df)

\* `promise_df is not None and len(promise_df) > 0`
Usable(promise_df) == IsDataset(promise_df) /\ promise_df.rows > 0

\* load_dataset of train_model.py: the frame, or the exception raised
load_dataset(sample) ==
    IF sample.kind = "absent" THEN Raised(39)
    ELSE IF sample.kind = "unreadable" THEN Raised(44)
    ELSE IF sample.data.rows = 0 THEN Raised(47)
    ELSE IF ~sample.columns_ok THEN Raised(51)
    ELSE IF sample.data.nan = "some"
         THEN [sample.data EXCEPT !.nan = "none"]
         ELSE sample.data

\* load_dataset of software_defect_detection/train_model.py
load_dataset_package(sample) ==
    IF sample.kind \in {"absent", "unreadable"} THEN Raised(26)
    ELSE IF ~sample.columns_ok THEN Raised(29)
    ELSE sample.data

\* a train_model without the tests of its argument
train_model_unchecked(frame, fit_ok) ==
    IF fit_ok THEN ModelFile("new") ELSE Raised(120)

\* train_model of train_model.py: the model, or the exception raised
train_model(frame, fit_ok) ==
    IF frame.rows < MIN_ROWS THEN Raised(79)
    ELSE IF frame.classes < 2 THEN Raised(87)
    ELSE IF frame.nan # "none" THEN Raised(91)
    ELSE IF frame.inf THEN Raised(93)
    ELSE IF ~fit_ok THEN Raised(120)
    ELSE ModelFile("new")

\* train_model of software_defect_detection/train_model.py: it tests
\* nothing itself; the split and the fit raise for missing or infinite
\* features, and for frames too small or of one class their outcome
\* depends on the split, so that both outcomes are possible
train_model_package(frame, fit_ok) ==
    IF frame.nan # "none" \/ frame.inf THEN Raised(43)
    ELSE IF frame.rows = 0 THEN Raised(38)
    ELSE IF ~fit_ok THEN Raised(43)
    ELSE ModelFile("new")

InitMainVars ==
    /\ tm_entry \in {"src", "package"}
    /\ tm_promise \in PromiseOutcomes
    \* load_promise_datasets catches what its sources raise, and only the
    \* main of train_model.py guards its call
    /\ tm_entry = "package" => ~IsRaised(tm_promise)
    /\ tm_sample \in SampleFiles
    /\ tm_file0 \in {NoFile, ModelFile("old")}
    /\ tm_file = tm_file0
    /\ tm_pc = "promise"
    /\ tm_df = NoValue
    /\ tm_source = "none"
    /\ tm_sample_read = FALSE
    /\ tm_model = NoValue
    /\ tm_exit = "none"

\* sys.exit(1), or an exception that leaves main
ExitOne ==
    /\ tm_pc' = "done"
    /\ tm_exit' = "1"

\* the call of load_promise_datasets and the test of its result
\* (train_model.py 145-152, package 61-64)
MainLoadPromise ==
    /\ tm_pc = "promise"
    /\ IF Usable(tm_promise)
       THEN /\ tm_df' = tm_promise
            /\ tm_source' = "promise"
            /\ tm_pc' = "train"
       ELSE /\ tm_df' = NoValue
            /\ tm_source' = "none"
            /\ tm_pc' = "fallback"
    /\ UNCHANGED <<tm_entry, tm_promise, tm_sample, tm_file0, tm_file,
                   tm_sample_read, tm_model, tm_exit,
                   avars, fvars, qvars, pvars, tvars, dvars, uvars, svars>>

\* the fallback to the sample CSV (train_model.py 155-167, package 66)
MainFallback ==
    /\ tm_pc = "fallback"
    /\ LET loaded == IF tm_entry = "src"
                     THEN load_dataset(tm_sample)
                     ELSE load_dataset_package(tm_sample)
       IN  /\ tm_sample_read' = (tm_sample.kind # "absent")
           /\ IF IsRaised(loaded)
              THEN /\ ExitOne
                   /\ UNCHANGED <<tm_df, tm_source>>
              ELSE /\ tm_df' = loaded
                   /\ tm_source' = "sample"
                   /\ tm_pc' = "train"
                   /\ UNCHANGED tm_exit
    /\ UNCHANGED <<tm_entry, tm_promise, tm_sample, tm_file0, tm_file,
                   tm_model, avars, fvars, qvars, pvars, tvars, dvars, uvars,
                   svars>>

\* the call of train_model (train_model.py 170-174, package 67); fitting
\* may fail for reasons outside the frame
MainTrain ==
    /\ tm_pc = "train"
    /\ \E fit_ok \in BOOLEAN :
          LET trained == IF tm_entry = "src"
                         THEN train_model(tm_df, fit_ok)
                         ELSE train_model_package(tm_df, fit_ok)
          IN  IF IsRaised(trained)
              THEN ExitOne /\ UNCHANGED tm_model
              ELSE /\ tm_model' = trained
                   /\ tm_pc' = "save"
                   /\ UNCHANGED tm_exit
    /\ UNCHANGED <<tm_entry, tm_promise, tm_sample, tm_file0, tm_file, tm_df,
                   tm_source, tm_sample_read,
                   avars, fvars, qvars, pvars, tvars, dvars, uvars, svars>>

\* open(model_path, "wb") and pickle.dump (train_model.py 177-188, package
\* 69-70): the file is written, or open fails, or the dump fails after
\* open has emptied the file
MainSave ==
    /\ tm_pc = "save"
    /\ \E outcome \in {"saved", "open fails", "dump fails"} :
          /\ tm_file' = CASE outcome = "saved" -> tm_model
                          [] outcome = "open fails" -> tm_file
                          [] outcome = "dump fails" -> TruncatedFile
          /\ tm_exit' = IF outcome = "saved" THEN "0" ELSE "1"
    /\ tm_pc' = "done"
    /\ UNCHANGED <<tm_entry, tm_promise, tm_sample, tm_file0, tm_df,
                   tm_source, tm_sample_read, tm_model,
                   avars, fvars, qvars, pvars, tvars, dvars, uvars, svars>>

(***************************************************************************)
(* SoftwareDefectDetector (ml_defect_detection.py).                        *)
(*                                                                         *)
(* A column name is a record Column(name), so that it can be told from     *)
(* None.  An F1 score is a number of steps k of 0..F1Steps, standing for   *)
(* k / F1Steps.  A model object is known by the name it has in             *)
(* self.models: train_and_evaluate fits the same objects again on every    *)
(* call.                                                                   *)
(***************************************************************************)
Column(name) == [column |-> name]

\* possible_targets of detect_target_column
possible_targets == <<"label", "defects", "defect", "target", "class", "bug">>

detect_target_column(columns, target_column) ==
    LET present == {i \in 1..Len(possible_targets) :
                       \E j \in 1..Len(columns) :
                           columns[j] = possible_targets[i]}
    IN  IF present # {} THEN Column(possible_targets[SetMin(present)])
        ELSE IF target_column = PyNone THEN Column(columns[Len(columns)])
        ELSE target_column

\* the keys of self.models, in the order of initialize_models
MODEL_NAMES ==
    <<"Logistic Regression", "Naive Bayes", "KNN", "Decision Tree",
      "Random Forest", "Gradient Boosting", "SVM">>

NumModels == 2

F1Steps == 2

NumEvalCalls == 2

MaxColumns == 3

ModelObject(name) == [object |-> name]

KeyError == [raised |-> "KeyError"]

\* what the body of the try block does for one model: it raises, or it
\* arrives at an F1 score
FitError == [raised |-> "Exception"]

Scored(f1) == [f1_score |-> f1]

TrainOutcomes == {FitError} \cup {Scored(f1) : f1 \in 0..F1Steps}

Untrained == [i \in 1..NumModels |-> NoValue]

ModelName(name) == [name |-> name]

\* a dict over the keys of self.models: a key that is not in the dict has
\* NoValue
ModelKeys == {MODEL_NAMES[i] : i \in 1..NumModels}

EmptyDict == [k \in ModelKeys |-> NoValue]

HasKey(dict, key) == dict[key] # NoValue

\* self.results[name] = {...}
SetItem(dict, key, value) == [dict EXCEPT ![key] = value]

Detector(res, model, name, score) ==
    [results |-> res, best_model |-> model, best_model_name |-> name,
     best_score |-> score]

\* one pass of the loop of train_and_evaluate
TrainOne(self, name, outcome) ==
    IF IsRaised(outcome) THEN self
    ELSE LET stored == SetItem(self.results, name,
                               [model |-> ModelObject(name),
                                f1_score |-> outcome.f1_score])
         IN  IF outcome.f1_score > self.best_score
             THEN Detector(stored, ModelObject(name), ModelName(name),
                           outcome.f1_score)
             ELSE [self EXCEPT !.results = stored]

RECURSIVE TrainLoop(_, _, _)
TrainLoop(self, outcomes, i) ==
    IF i > NumModels THEN self
    ELSE TrainLoop(TrainOne(self, MODEL_NAMES[i], outcomes[i]), outcomes,
                   i + 1)

\* self.results = {} and the loop; the three best_ attributes keep the
\* values of earlier calls
train_and_evaluate(self, outcomes) ==
    TrainLoop([self EXCEPT !.results = EmptyDict], outcomes, 1)

\* save_best_model: nothing without a best model; the metrics are
\* self.results[self.best_model_name]
save_best_model(self) ==
    IF self.best_model = PyNone THEN [saved |-> "nothing"]
    ELSE IF ~HasKey(self.results, self.best_model_name.name) THEN KeyError
    ELSE [model |-> self.best_model, model_name |-> self.best_model_name,
          metrics |-> self.results[self.best_model_name.name]]

ColumnNames == {"loc", "severity", "class", "bug", "label"}

RECURSIVE ColumnSeqs(_)
ColumnSeqs(n) ==
    IF n = 0 THEN {<<>>}
    ELSE LET shorter == ColumnSeqs(n - 1)
         IN  shorter \cup
             {Append(s, c) : s \in {t \in shorter : Len(t) = n - 1},
                             c \in ColumnNames}

\* df.columns: distinct names, at least one
ColumnLists ==
    {s \in ColumnSeqs(MaxColumns) :
        /\ Len(s) >= 1
        /\ \A i, j \in 1..Len(s) : i # j => s[i] # s[j]}

TargetArguments == {PyNone, Column("severity"), Column("bug"), Column("id")}

Self == Detector(results, best_model, best_model_name, best_score)

\* SoftwareDefectDetector(dataset_path, target_column) and the frame that
\* preprocess_data is called with
InitTargetVars ==
    /\ sd_target_column \in TargetArguments
    /\ sd_columns \in ColumnLists
    /\ sd_target = NoValue

\* __init__ and initialize_models
InitDetectorVars ==
    /\ results = EmptyDict
    /\ best_model = PyNone
    /\ best_model_name = PyNone
    /\ best_score = 0
    /\ sd_fitted = Untrained
    /\ sd_calls = 0
    /\ sd_saved = NoValue

\* target_col = self.detect_target_column(df)   (preprocess_data)
DetectTarget ==
    /\ sd_target = NoValue
    /\ sd_target' = detect_target_column(sd_columns, sd_target_column)
    /\ UNCHANGED <<sd_target_column, sd_columns, results, best_model,
                   best_model_name, best_score, sd_fitted, sd_calls, sd_saved,
                   avars, fvars, qvars, pvars, tvars, dvars, uvars, kvars>>

TrainAndEvaluate ==
    /\ sd_calls < NumEvalCalls
    /\ \E outcomes \in [1..NumModels -> TrainOutcomes] :
          LET after == train_and_evaluate(Self, outcomes)
          IN  /\ results' = after.results
              /\ best_model' = after.best_model
              /\ best_model_name' = after.best_model_name
              /\ best_score' = after.best_score
              /\ sd_fitted' = outcomes
    /\ sd_calls' = sd_calls + 1
    /\ UNCHANGED <<sd_target_column, sd_columns, sd_target, sd_saved,
                   avars, fvars, qvars, pvars, tvars, dvars, uvars, kvars>>

SaveBestModel ==
    /\ sd_saved' = save_best_model(Self)
    /\ UNCHANGED <<sd_target_column, sd_columns, sd_target, results,
                   best_model, best_model_name, best_score, sd_fitted,
                   sd_calls, avars, fvars, qvars, pvars, tvars, dvars, uvars,
                   kvars>>

(***************************************************************************)
(* Variables of the parts a specification does not run.                    *)
(***************************************************************************)
IdleProviderVars ==
    /\ model_path = <<>>
    /\ file = NoValue
    /\ fchanges = 0
    /\ h_pc = <<>>
    /\ h_exc = <<>>
    /\ h_opened = <<>>
    /\ h_model = <<>>
    /\ h_name = <<>>
    /\ h_failed = <<>>
    /\ h_read = <<>>
    /\ h_trained = <<>>
    /\ h_after = <<>>
    /\ resolved = NoValue

IdleTrainVars ==
    /\ entropy = 0
    /\ t_pc = <<>>
    /\ t_rng = <<>>
    /\ t_model = <<>>
    /\ t_pred = <<>>

IdleMapVars == df = NoValue /\ mapped = NoValue

IdleLoadVars == files = <<>> /\ combined = NoValue

IdleIngestVars == IdleMapVars /\ IdleLoadVars

IdleUploadVars ==
    /\ up_bytes = <<>>
    /\ up_pos = 0
    /\ up_via = "idle"
    /\ up_text = NoValue

IdleMainVars ==
    /\ tm_entry = "idle"
    /\ tm_promise = PyNone
    /\ tm_sample = NoFile
    /\ tm_file0 = NoFile
    /\ tm_file = NoFile
    /\ tm_pc = "idle"
    /\ tm_df = NoValue
    /\ tm_source = "none"
    /\ tm_sample_read = FALSE
    /\ tm_model = NoValue
    /\ tm_exit = "none"


IdleTargetVars ==
    /\ sd_target_column = PyNone
    /\ sd_columns = <<"label">>
    /\ sd_target = NoValue

IdleDetectorVars == IdleTargetVars /\ InitDetectorVars

(***************************************************************************)
(* Specifications.                                                         *)
(***************************************************************************)
InitAnalyze ==
    InitAnalyzeVars /\ IdleFeatureVars /\ IdlePureVars /\ IdleProviderVars
        /\ IdleTrainVars /\ IdleDetectorVars /\ IdleMainVars /\ IdleUploadVars
        /\ IdleIngestVars

NextAnalyze == Analyze

SpecAnalyze == InitAnalyze /\ [][NextAnalyze]_vars

\* analyze_code on texts of function signatures
InitAnalyzeFn ==
    /\ code_text \in FnTexts /\ metrics = NoValue
    /\ IdleFeatureVars /\ IdlePureVars /\ IdleProviderVars /\ IdleTrainVars
       /\ IdleDetectorVars /\ IdleMainVars /\ IdleUploadVars
    /\ IdleIngestVars

SpecAnalyzeFn == InitAnalyzeFn /\ [][NextAnalyze]_vars

\* analyze_code on texts of comment markers, blanks and line breaks
InitAnalyzeLines ==
    /\ code_text \in LineTexts /\ metrics = NoValue
    /\ IdleFeatureVars /\ IdlePureVars /\ IdleProviderVars /\ IdleTrainVars
       /\ IdleDetectorVars /\ IdleMainVars /\ IdleUploadVars
    /\ IdleIngestVars

SpecAnalyzeLines == InitAnalyzeLines /\ [][NextAnalyze]_vars

\* analyze_code on texts of TODO / FIXME markers
InitAnalyzeTodo ==
    /\ code_text \in TodoTexts /\ metrics = NoValue
    /\ IdleFeatureVars /\ IdlePureVars /\ IdleProviderVars /\ IdleTrainVars
       /\ IdleDetectorVars /\ IdleMainVars /\ IdleUploadVars
    /\ IdleIngestVars

SpecAnalyzeTodo == InitAnalyzeTodo /\ [][NextAnalyze]_vars

InitFeatures ==
    IdleAnalyzeVars /\ InitFeatureVars /\ IdlePureVars /\ IdleProviderVars
        /\ IdleTrainVars /\ IdleDetectorVars /\ IdleMainVars /\ IdleUploadVars
        /\ IdleIngestVars

NextFeatures == Vectorize

SpecFeatures == InitFeatures /\ [][NextFeatures]_vars

InitPure ==
    IdleAnalyzeVars /\ IdleFeatureVars /\ InitPureVars /\ IdleProviderVars
        /\ IdleTrainVars /\ IdleDetectorVars /\ IdleMainVars /\ IdleUploadVars
        /\ IdleIngestVars

NextPure ==
    \E r \in Requests :
        \/ EnterAnalyze(r)
        \/ CommentStep(r)
        \/ CommentsDone(r)
        \/ FunctionStep(r)
        \/ ReturnMetrics(r)
        \/ VectorizeRequest(r)

SpecPure == InitPure /\ [][NextPure]_vars

InitProvider ==
    IdleAnalyzeVars /\ IdleFeatureVars /\ IdlePureVars /\ InitProviderVars
        /\ IdleTrainVars /\ IdleDetectorVars /\ IdleMainVars /\ IdleUploadVars
        /\ IdleIngestVars

NextProvider ==
    \/ FileChange
    \/ \E h \in Handlers :
         \/ BeginCall(h)
         \/ CheckExists(h)
         \/ OpenFile(h)
         \/ PickleLoad(h)
         \/ ExceptClause(h)
         \/ TrainFallback(h)
         \/ Predict(h)

SpecProvider == InitProvider /\ [][NextProvider]_vars

InitTrain ==
    IdleAnalyzeVars /\ IdleFeatureVars /\ IdlePureVars /\ IdleProviderVars
        /\ InitTrainVars /\ IdleDetectorVars /\ IdleMainVars /\ IdleUploadVars
        /\ IdleIngestVars

NextTrain ==
    \/ EntropyChange
    \/ \E c \in TrainCalls :
         \/ SeedRng(c)
         \/ TrainOnSynthetic(c)
         \/ PredictWith(c)

SpecTrain == InitTrain /\ [][NextTrain]_vars

InitMap ==
    IdleAnalyzeVars /\ IdleFeatureVars /\ IdlePureVars /\ IdleProviderVars
        /\ IdleTrainVars /\ IdleDetectorVars /\ IdleMainVars /\ IdleUploadVars
           /\ InitMapVars /\ IdleLoadVars

NextMap == MapFrame

SpecMap == InitMap /\ [][NextMap]_vars

InitLoad ==
    IdleAnalyzeVars /\ IdleFeatureVars /\ IdlePureVars /\ IdleProviderVars
        /\ IdleTrainVars /\ IdleDetectorVars /\ IdleMainVars /\ IdleUploadVars
           /\ IdleMapVars /\ InitLoadVars

NextLoad == LoadDatasets

SpecLoad == InitLoad /\ [][NextLoad]_vars

InitUpload ==
    IdleAnalyzeVars /\ IdleFeatureVars /\ IdlePureVars /\ IdleProviderVars
        /\ IdleTrainVars /\ IdleDetectorVars /\ IdleMainVars /\ IdleIngestVars
        /\ InitUploadVars

NextUpload == FlaskUpload \/ StreamlitUpload

SpecUpload == InitUpload /\ [][NextUpload]_vars

InitMain ==
    IdleAnalyzeVars /\ IdleFeatureVars /\ IdlePureVars /\ IdleProviderVars
        /\ IdleTrainVars /\ IdleDetectorVars /\ IdleIngestVars
           /\ IdleUploadVars /\ InitMainVars

NextMain == MainLoadPromise \/ MainFallback \/ MainTrain \/ MainSave

SpecMain == InitMain /\ [][NextMain]_vars

InitTarget ==
    IdleAnalyzeVars /\ IdleFeatureVars /\ IdlePureVars /\ IdleProviderVars
        /\ IdleTrainVars /\ IdleIngestVars /\ IdleUploadVars /\ IdleMainVars
        /\ InitTargetVars /\ InitDetectorVars

NextTarget == DetectTarget

SpecTarget == InitTarget /\ [][NextTarget]_vars

InitDetector ==
    IdleAnalyzeVars /\ IdleFeatureVars /\ IdlePureVars /\ IdleProviderVars
        /\ IdleTrainVars /\ IdleIngestVars /\ IdleUploadVars /\ IdleMainVars
        /\ IdleTargetVars /\ InitDetectorVars

NextDetector == TrainAndEvaluate \/ SaveBestModel

SpecDetector == InitDetector /\ [][NextDetector]_vars

InitOnline ==
    InitAnalyzeVars /\ IdleFeatureVars /\ IdlePureVars /\ IdleProviderVars
        /\ IdleTrainVars /\ IdleDetectorVars /\ IdleMainVars
        /\ IdleUploadVars /\ IdleIngestVars

NextOnline == Analyze \/ IndexFeatures

SpecOnline == InitOnline /\ [][NextOnline]_vars

(***************************************************************************)
(* Properties of analyze_code (SpecAnalyze).                               *)
(***************************************************************************)
\* the six names of the schema, as the specification lists them
SchemaOrder ==
    <<"loc", "num_comments", "num_functions",
      "cyclomatic_complexity_estimate", "avg_line_length", "num_todos">>

SchemaNames == {SchemaOrder[k] : k \in 1..Len(SchemaOrder)}

\* no line of the text has a non-empty trimmed content
OnlyWhitespace(s) == \A i \in 1..Len(s) : IsSpace(s[i])

\* C7: for every text analyze_code returns a record with exactly the six
\* schema keys, every value a non-negative float, and avg_line_length is 0.0
\* if and only if the text has no line whose trimmed content is non-empty.
C7_AnalyzeTotal ==
    metrics # NoValue =>
        /\ DOMAIN metrics = SchemaNames
        /\ \A name \in SchemaNames :
              /\ metrics[name].t = "float"
              /\ metrics[name].n >= 0
              /\ metrics[name].d > 0
        /\ (metrics["avg_line_length"].n = 0 <=> OnlyWhitespace(code_text))

\* C7 witness: a text with a blank line of whitespace and a non-empty line
\* has been analysed.
C7_Witness ==
    /\ metrics # NoValue
    /\ metrics["avg_line_length"].n > 0
    /\ \E k \in 1..Len(splitlines(code_text)) :
          /\ splitlines(code_text)[k] # <<>>
          /\ OnlyWhitespace(splitlines(code_text)[k])

\* The keywords of the claimed token set, and its two operators.
ClaimedKeywords ==
    {<<"i","f">>, <<"e","l","i","f">>, <<"f","o","r">>,
     <<"w","h","i","l","e">>, <<"a","n","d">>, <<"o","r">>,
     <<"c","a","s","e">>, <<"e","x","c","e","p","t">>,
     <<"c","a","t","c","h">>}

ClaimedOperators == {<<"&","&">>, <<"|","|">>}

\* a keyword stands at position i as a whole word
WholeWordAt(s, i, kw) ==
    /\ MatchLit(s, i, kw)
    /\ ~IsWordCh(At(s, i - 1))
    /\ ~IsWordCh(At(s, i + Len(kw)))

\* the occurrences the claim counts: whole-word keywords, and every && and ||
RECURSIVE ClaimedTokenCount(_, _)
ClaimedTokenCount(s, i) ==
    IF i > Len(s)
    THEN 0
    ELSE LET kws == {kw \in ClaimedKeywords : WholeWordAt(s, i, kw)}
             ops == {op \in ClaimedOperators : MatchLit(s, i, op)}
         IN  IF kws # {}
             THEN 1 + ClaimedTokenCount(s, i + SetMax({Len(kw) : kw \in kws}))
             ELSE IF ops # {}
                  THEN 1 + ClaimedTokenCount(s, i + 2)
                  ELSE ClaimedTokenCount(s, i + 1)

\* C10: cyclomatic_complexity_estimate is 1.0 plus the number of occurrences
\* of the tokens, keywords as whole words and every && and || whether or not
\* whitespace surrounds it.
C10_ComplexityCountsEveryToken ==
    metrics # NoValue =>
        metrics["cyclomatic_complexity_estimate"]
            = Float(1 + ClaimedTokenCount(code_text, 1))

(***************************************************************************)
(* Properties of metrics_to_features (SpecFeatures).                       *)
(***************************************************************************)
\* C9: for every mapping, also one that lacks schema keys, the result has
\* exactly 6 values in the fixed schema order; a position holds the mapping's
\* value for that name if present (as a float of the same value) and 0.0
\* otherwise.
C9_FeaturesFixedOrder ==
    fv_row # NoValue =>
        /\ DOMAIN fv_row.values = 1..6
        /\ fv_row.columns = SchemaOrder
        /\ \A k \in 1..6 :
              /\ fv_row.values[k].t = "float"
              /\ IF SchemaOrder[k] \in DOMAIN fv_metrics
                 THEN NumEq(fv_row.values[k], fv_metrics[SchemaOrder[k]])
                 ELSE fv_row.values[k] = Rat(0, 1)

\* C9 witness: a mapping without num_todos and with distinct values under
\* avg_line_length and loc has been vectorized.
C9_Witness ==
    /\ fv_row # NoValue
    /\ "num_todos" \notin DOMAIN fv_metrics
    /\ {"loc", "avg_line_length"} \subseteq DOMAIN fv_metrics
    /\ ~NumEq(fv_metrics["loc"], fv_metrics["avg_line_length"])
    /\ fv_metrics["avg_line_length"].n > 0

(***************************************************************************)
(* Purity under concurrency (SpecPure).                                    *)
(***************************************************************************)
\* C8: under any interleaving of concurrent requests every call returns what
\* it returns when it runs alone (analyze_code and metrics_to_features
\* applied to the request's own text in one step), and two calls on
\* identical text return identical records.
C8_PureUnderInterleaving ==
    \A r \in Requests :
        /\ req_metrics[r] # NoValue => req_metrics[r] = analyze_code(req_text[r])
        /\ req_row[r] # NoValue =>
              req_row[r] = metrics_to_features(analyze_code(req_text[r]))
        /\ \A q \in Requests :
              (/\ req_metrics[r] # NoValue
               /\ req_metrics[q] # NoValue
               /\ req_text[r] = req_text[q]) => req_metrics[r] = req_metrics[q]

\* C8 witness: two requests with different texts have both finished, and the
\* texts yield different comment and function counts.
C8_Witness ==
    \E r, q \in Requests :
        /\ req_pc[r] = "done"
        /\ req_pc[q] = "done"
        /\ req_metrics[r]["num_comments"] # req_metrics[q]["num_comments"]
        /\ req_metrics[r]["num_functions"] # req_metrics[q]["num_functions"]

(***************************************************************************)
(* Properties of the Model Provider (SpecProvider).                        *)
(***************************************************************************)
\* load_or_train_model has returned to handler h
HasReturned(h) == h_pc[h] \in {"returned", "done", "predict_failed"}

ClaimedFallbackName == [text |-> "Fallback RandomForest (synthetic)", base |-> ""]

\* C1: once a call has resolved the path to LOADED or to FALLBACK, every call
\* that begins later in the process returns that same resolution (same
\* classifier, same name), whatever happens to the file in between.
C1_ResolutionCached ==
    \A h \in Handlers :
        (HasReturned(h) /\ h_after[h]) =>
            [model |-> h_model[h], name |-> h_name[h]] = resolved

\* C2: among the callers that make the first call concurrently (their call
\* began before any call had resolved), at most one trains a fallback model
\* and at most one reads the model file.
C2_LoadOrTrainOnce ==
    /\ Cardinality({h \in Handlers : ~h_after[h] /\ h_trained[h]}) <= 1
    /\ Cardinality({h \in Handlers : ~h_after[h] /\ h_read[h]}) <= 1

\* C3: no load error leaves load_or_train_model: no call ends by raising, an
\* exception is in flight only inside the try block, and a call whose load
\* failed (file absent, not openable, vanished before open, truncated,
\* corrupt or incompatible) returns a fallback classifier tagged as fallback.
C3_LoadErrorsRecovered ==
    \A h \in Handlers :
        /\ h_pc[h] # "raised"
        /\ h_exc[h] # "none" => h_pc[h] = "except"
        /\ (HasReturned(h) /\ h_failed[h] # "none") =>
              /\ h_model[h].origin = "fallback"
              /\ h_name[h] = ClaimedFallbackName

\* C3 witness: one call has returned after the file vanished between the
\* existence check and open(), another after reading a truncated file.
C3_Witness ==
    \E h, g \in Handlers :
        /\ HasReturned(h)
        /\ h_failed[h] = "FileNotFoundError"
        /\ HasReturned(g)
        /\ h_failed[g] = "EOFError"

\* C4: whatever is stored at the model path, the object load_or_train_model
\* returns supports predict, so the handler's predict step never fails.
C4_PredictAlwaysAvailable ==
    \A h \in Handlers :
        /\ HasReturned(h) => h_model[h].predict
        /\ h_pc[h] # "predict_failed"

\* C5: the returned name is the loaded-model name built from the basename of
\* the path exactly when the returned object was deserialized from the file,
\* and the fallback name exactly when it was trained on synthetic data; a
\* call that returns the deserialized object has trained nothing.
C5_NameIdentifiesState ==
    \A h \in Handlers :
        HasReturned(h) =>
            /\ (h_name[h] = [text |-> "Loaded saved model",
                             base |-> model_path[Len(model_path)]])
                   <=> (h_model[h].origin = "file")
            /\ (h_name[h] = ClaimedFallbackName)
                   <=> (h_model[h].origin = "fallback")
            /\ h_model[h].origin \in {"file", "fallback"}
            /\ h_model[h].origin = "file" => (~h_trained[h] /\ h_read[h])
            /\ h_model[h].origin = "fallback" => h_trained[h]

\* C5 witness: under a path of several components one call has returned the
\* object read from the file and another a fallback model.
C5_Witness ==
    /\ Len(model_path) > 2
    /\ \E h, g \in Handlers :
          /\ HasReturned(h)
          /\ h_model[h].origin = "file"
          /\ HasReturned(g)
          /\ h_model[g].origin = "fallback"

(***************************************************************************)
(* Determinism of the fallback (SpecTrain).                                *)
(***************************************************************************)
\* the labelling rule on a row in schema order (loc first, complexity fourth,
\* todos sixth), in tenths
ClaimedLabel(row) == IF 10 * row[4] + 8 * row[6] + 4 * row[1] > 50 THEN 1 ELSE 0

\* C6: every call trains on 128 rows over the 6 schema columns labelled by
\* the fixed rule, and any two calls, whenever and in whatever run they are
\* made, train on identical data and give the same prediction for every
\* feature vector.
C6_FallbackDeterministic ==
    \A c \in TrainCalls :
        t_model[c] # NoValue =>
            /\ Len(t_model[c].X) = 128
            /\ Len(t_model[c].y) = 128
            /\ \A i \in 1..128 :
                  /\ Len(t_model[c].X[i]) = 6
                  /\ t_model[c].y[i] = ClaimedLabel(t_model[c].X[i])
            /\ \A b \in TrainCalls :
                  t_model[b] # NoValue =>
                      /\ t_model[b].X = t_model[c].X
                      /\ t_model[b].y = t_model[c].y
                      /\ (t_pred[b] # NoValue /\ t_pred[c] # NoValue)
                            => \A v \in ProbeVectors : t_pred[b][v] = t_pred[c][v]

\* C6 witness: two calls seeded under different system entropy have both
\* predicted, the training labels hold both classes and so do the
\* predictions.
C6_Witness ==
    \E b, c \in TrainCalls :
        /\ t_pc[b] = "done"
        /\ t_pc[c] = "done"
        /\ t_rng[b].seeded_at # t_rng[c].seeded_at
        /\ \E i, j \in 1..Len(t_model[c].y) :
              t_model[c].y[i] = 0 /\ t_model[c].y[j] = 1
        /\ \E v, w \in ProbeVectors : t_pred[c][v] = 0 /\ t_pred[c][w] = 1

(***************************************************************************)
(* Properties of the single metrics of analyze_code (SpecAnalyzeFn,        *)
(* SpecAnalyzeLines, SpecAnalyzeTodo).                                     *)
(***************************************************************************)
\* the text `function f() {`
FunctionF ==
    <<"f","u","n","c","t","i","o","n"," ","f","(",")"," ","{">>

\* the matches of each of the three signature styles, counted on its own
ClaimedFunctionCount(s) ==
    FindallCount("def", s, 1) + FindallCount("function", s, 1)
        + FindallCount("clike", s, 1)

\* C11: num_functions is the sum of the match counts of the three signature
\* patterns, each applied on its own to the whole text, without removing
\* duplicates: `function f() {` matches two of them and contributes 2.
C11_FunctionsSummed ==
    metrics # NoValue =>
        /\ metrics.num_functions = Float(ClaimedFunctionCount(code_text))
        /\ code_text = FunctionF => metrics.num_functions = Float(2)

\* `function f() {` was analysed: the function pattern and the C-like
\* pattern matched it once each
C11_Witness ==
    /\ metrics # NoValue
    /\ code_text = FunctionF
    /\ FindallCount("function", code_text, 1) = 1
    /\ FindallCount("clike", code_text, 1) = 1
    /\ FindallCount("def", code_text, 1) = 0
    /\ metrics.num_functions = Float(2)

\* the positions of a line that hold something other than whitespace
InkPositions(ln) == {i \in 1..Len(ln) : ~IsSpace(ln[i])}

\* the line's trimmed content starts with # or with //, or holds /*
QualifiesAsComment(ln) ==
    \/ /\ InkPositions(ln) # {}
       /\ LET f == SetMin(InkPositions(ln))
          IN  \/ ln[f] = "#"
              \/ ln[f] = "/" /\ At(ln, f + 1) = "/"
    \/ \E i \in 1..(Len(ln) - 1) : ln[i] = "/" /\ ln[i + 1] = "*"

\* C12: num_comments is the number of lines whose trimmed content starts
\* with # or //, or contains /*; a qualifying line adds exactly 1 however
\* many markers it holds, every other line adds 0.
C12_CommentsPerLine ==
    metrics # NoValue =>
        LET lines == splitlines(code_text)
        IN  metrics.num_comments =
                Float(Cardinality({k \in 1..Len(lines) :
                                      QualifiesAsComment(lines[k])}))

\* a text of two lines was analysed: the line `//` adds 1, the line `a`
\* adds 0
C12_Witness ==
    /\ metrics # NoValue
    /\ code_text = <<"/", "/", "\n", "a">>
    /\ Len(splitlines(code_text)) = 2
    /\ metrics.num_comments = Float(1)

\* the total length of the lines from the k-th on that hold something other
\* than whitespace, each line counted whole
RECURSIVE InkLineChars(_, _)
InkLineChars(lines, k) ==
    IF k > Len(lines)
    THEN 0
    ELSE (IF InkPositions(lines[k]) # {} THEN Len(lines[k]) ELSE 0)
             + InkLineChars(lines, k + 1)

ClaimedMarkers == {<<"t","o","d","o">>, <<"f","i","x","m","e">>}

\* a marker stands at position i as a whole word, in any mix of cases
MarkerAt(s, i) ==
    \E w \in ClaimedMarkers :
        /\ \A k \in 1..Len(w) : Lower(At(s, i + k - 1)) = w[k]
        /\ ~IsWordCh(At(s, i - 1))
        /\ ~IsWordCh(At(s, i + Len(w)))

\* C14: num_todos is the number of whole-word occurrences of TODO or FIXME
\* in any mix of cases: `todo` and `FixMe` count, `TODOS` does not.
C14_TodosWholeWordAnyCase ==
    metrics # NoValue =>
        /\ metrics.num_todos =
               Float(Cardinality({i \in 1..Len(code_text) :
                                     MarkerAt(code_text, i)}))
        /\ code_text = <<"t","o","d","o">> => metrics.num_todos = Float(1)
        /\ code_text = <<"F","i","x","M","e">> => metrics.num_todos = Float(1)
        /\ code_text = <<"T","O","D","O","S">> => metrics.num_todos = Float(0)

\* `todo FixMe` was analysed: both markers counted
C14_Witness ==
    /\ metrics # NoValue
    /\ code_text = <<"t","o","d","o"," ","F","i","x","M","e">>
    /\ metrics.num_todos = Float(2)

\* the result the claim names for a text without content
ClaimedEmptyResult ==
    [loc |-> Float(0),
     num_comments |-> Float(0),
     num_functions |-> Float(0),
     cyclomatic_complexity_estimate |-> Float(1),
     avg_line_length |-> Float(0),
     num_todos |-> Float(0)]

\* C15: for the empty text and for every text of whitespace and line
\* breaks only, the result is exactly loc 0, num_comments 0, num_functions
\* 0, cyclomatic_complexity_estimate 1.0, avg_line_length 0.0, num_todos 0.
C15_EmptyTextBaseline ==
    metrics # NoValue /\ OnlyWhitespace(code_text) =>
        metrics = ClaimedEmptyResult

\* a text of a blank, a line feed and a tab was analysed
C15_Witness ==
    /\ code_text = <<" ", "\n", "\t">>
    /\ OnlyWhitespace(code_text)
    /\ metrics = ClaimedEmptyResult

(***************************************************************************)
(* Properties of _map_promise_to_features (SpecMap).                       *)
(***************************************************************************)
\* the spellings of true and of false in every mix of letter cases
TrueSpellings ==
    {<<c1, c2, c3, c4>> :
        c1 \in {"t", "T"}, c2 \in {"r", "R"}, c3 \in {"u", "U"},
        c4 \in {"e", "E"}}

FalseSpellings ==
    {<<c1, c2, c3, c4, c5>> :
        c1 \in {"f", "F"}, c2 \in {"a", "A"}, c3 \in {"l", "L"},
        c4 \in {"s", "S"}, c5 \in {"e", "E"}}

\* a cell holds the string true, or the string false, in any letter case
SaysTrue(c) == c.t = "str" /\ c.s \in TrueSpellings

SaysFalse(c) == c.t = "str" /\ c.s \in FalseSpellings

\* some alias of loc and some alias of complexity is a column of the frame
FeaturesResolvable(frame) ==
    /\ frame.columns \cap {"loc", "lOCode", "locCodeAndComment"} # {}
    /\ frame.columns \cap {"v(g)", "branchCount"} # {}

RowNumbers(frame) == 1..Len(frame.rows)

\* C16: the label comes from defects when that column is present, also
\* when label is present too, true/false in any letter case giving 1/0;
\* otherwise label is parsed as an integer; with neither column the source
\* fails with a schema error.
C16_LabelResolution ==
    mapped # NoValue =>
        /\ ( /\ "defects" \in df.columns
             /\ FeaturesResolvable(df)
             /\ \A r \in RowNumbers(df) :
                   SaysTrue(df.rows[r]["defects"])
                       \/ SaysFalse(df.rows[r]["defects"]) )
           => /\ ~IsRaised(mapped)
              /\ \A r \in RowNumbers(df) :
                    mapped.rows[r]["label"] =
                        PyInt(IF SaysTrue(df.rows[r]["defects"]) THEN 1 ELSE 0)
        /\ ( /\ "defects" \notin df.columns
             /\ "label" \in df.columns
             /\ FeaturesResolvable(df)
             /\ \A r \in RowNumbers(df) : df.rows[r]["label"].t = "int" )
           => /\ ~IsRaised(mapped)
              /\ \A r \in RowNumbers(df) :
                    mapped.rows[r]["label"] = df.rows[r]["label"]
        /\ ("defects" \notin df.columns /\ "label" \notin df.columns)
           => IsRaised(mapped) /\ mapped.line \in SchemaErrorLines

\* a frame with a defects column saying True, false and a label column
\* saying 2, 0 was mapped: the labels are 1, 0
C16_Witness ==
    /\ mapped # NoValue
    /\ ~IsRaised(mapped)
    /\ {"defects", "label"} \subseteq df.columns
    /\ df.rows[1]["defects"] = Str(<<"T","r","u","e">>)
    /\ df.rows[2]["defects"] = Str(<<"f","a","l","s","e">>)
    /\ df.rows[1]["label"] = PyInt(2)
    /\ mapped.rows[1]["label"] = PyInt(1)
    /\ mapped.rows[2]["label"] = PyInt(0)

\* the column the claim names for a feature: the first alias present
ClaimedLocColumn(cols) ==
    IF "loc" \in cols THEN "loc"
    ELSE IF "lOCode" \in cols THEN "lOCode" ELSE "locCodeAndComment"

ClaimedComplexityColumn(cols) ==
    IF "v(g)" \in cols THEN "v(g)" ELSE "branchCount"

\* a source value as the float the output holds; a missing value stays one
ClaimedFloat(c) == IF IsNumber(c) THEN [t |-> "float", n |-> c.n, d |-> c.d] ELSE c

\* the label step of the mapping passes
LabelResolves(frame) ==
    \/ "defects" \in frame.columns
    \/ /\ "label" \in frame.columns
       /\ \A r \in RowNumbers(frame) : frame.rows[r]["label"].t = "int"

ClaimedN(frame, r) ==
    IF "n" \in frame.columns THEN frame.rows[r]["n"] ELSE Float(0)

\* C18: avg_line_length is n divided by loc, with n = 0.0 when the source
\* has no n column and loc taken as 1 where it is exactly 0, so that the
\* quotient is always a finite float; the loc written to the row is the
\* original one, a 0 staying 0; a source column avg_line_length has no
\* influence.
C18_AverageDerived ==
    mapped # NoValue /\ ~IsRaised(mapped) =>
        \A r \in RowNumbers(df) :
            LET n == ClaimedN(df, r)
                loc == df.rows[r][ClaimedLocColumn(df.columns)]
                divisor == IF loc.n = 0 THEN 1 ELSE loc.n
            IN  IsNumber(n) /\ IsNumber(loc) =>
                    /\ mapped.rows[r]["avg_line_length"] =
                           Rat(n.n * loc.d, n.d * divisor)
                    /\ mapped.rows[r]["avg_line_length"].t = "float"
                    /\ mapped.rows[r]["loc"] = ClaimedFloat(loc)

\* a frame with the columns loc, n and avg_line_length was mapped: in the
\* row with loc = 0 the average is n / 1, not the value of the source
\* column, and loc is still 0
C18_Witness ==
    /\ mapped # NoValue
    /\ ~IsRaised(mapped)
    /\ {"loc", "n", "avg_line_length"} \subseteq df.columns
    /\ df.rows[2]["loc"] = PyInt(0)
    /\ mapped.rows[2]["loc"] = Float(0)
    /\ mapped.rows[2]["avg_line_length"] = ClaimedFloat(df.rows[2]["n"])
    /\ mapped.rows[2]["avg_line_length"]
           # ClaimedFloat(df.rows[2]["avg_line_length"])

\* C19: in every mapped row num_functions and num_todos are 0.0 whatever
\* columns the source has; num_comments is the row's lOComment when the
\* source has that column, and 0.0 in every row when it has not.
C19_PlaceholderColumns ==
    mapped # NoValue /\ ~IsRaised(mapped) =>
        \A r \in RowNumbers(df) :
            /\ mapped.rows[r]["num_functions"] = Float(0)
            /\ mapped.rows[r]["num_todos"] = Float(0)
            /\ mapped.rows[r]["num_comments"] =
                   IF "lOComment" \in df.columns
                   THEN ClaimedFloat(df.rows[r]["lOComment"])
                   ELSE Float(0)

\* a frame with an lOComment column of non-zero values was mapped
C19_Witness ==
    /\ mapped # NoValue
    /\ ~IsRaised(mapped)
    /\ "lOComment" \in df.columns
    /\ df.rows[1]["lOComment"].n > 0
    /\ mapped.rows[1]["num_comments"] = ClaimedFloat(df.rows[1]["lOComment"])
    /\ mapped.rows[1]["num_functions"] = Float(0)
    /\ mapped.rows[1]["num_todos"] = Float(0)

(***************************************************************************)
(* Properties of load_promise_datasets (SpecLoad).                         *)
(***************************************************************************)
\* the r-th row of a frame as a frame of its own
OneRowFrame(frame, r) == [columns |-> frame.columns, rows |-> <<frame.rows[r]>>]

\* the rows from the r-th on that the claim keeps of a source: each row is
\* mapped by itself, and is dropped by itself when a value of it is missing
RECURSIVE ClaimedSourceRows(_, _)
ClaimedSourceRows(frame, r) ==
    IF r > Len(frame.rows)
    THEN <<>>
    ELSE LET one == map_promise_to_features(OneRowFrame(frame, r))
             kept == IF IsRaised(one) \/ HasMissing(one.rows[1])
                     THEN <<>>
                     ELSE one.rows
         IN  kept \o ClaimedSourceRows(frame, r + 1)

\* the rows the claim keeps of the sources from the k-th name on
RECURSIVE ClaimedCombinedRows(_, _)
ClaimedCombinedRows(dir, k) ==
    IF k > Len(PROMISE_FILENAMES)
    THEN <<>>
    ELSE LET f == dir[PROMISE_FILENAMES[k]]
         IN  (IF f.kind = "csv" THEN ClaimedSourceRows(f.frame, 1) ELSE <<>>)
                 \o ClaimedCombinedRows(dir, k + 1)

\* C20: the result is the concatenation of the mapped rows of all sources,
\* in the columns of the feature schema followed by label, without exactly
\* the rows that have a missing value in some column, features or label:
\* such a row is dropped on its own and every other row is kept unchanged.
C20_RowsDroppedOneByOne ==
    combined # NoValue =>
        LET expected == ClaimedCombinedRows(files, 1)
        IN  IF combined = PyNone
            THEN expected = <<>>
            ELSE /\ combined.columns = SchemaOrder \o <<"label">>
                 /\ combined.rows = expected

\* a source the claim calls failing: a file that cannot be read or parsed,
\* or one without a required column
ClaimedFailing(f) ==
    \/ f.kind = "unreadable"
    \/ /\ f.kind = "csv"
       /\ \/ ~FeaturesResolvable(f.frame)
          \/ f.frame.columns \cap {"defects", "label"} = {}

SourceNames == {PROMISE_FILENAMES[k] : k \in 1..Len(PROMISE_FILENAMES)}

\* C21: a failing source is skipped and does not abort ingestion: the
\* result is the one the call returns with that source absent, wherever
\* the failing source stands among the sources.
C21_FailingSourceSkipped ==
    combined # NoValue =>
        \A name \in SourceNames :
            ClaimedFailing(files[name]) =>
                combined = load_promise_datasets([files EXCEPT ![name] = Absent])

\* a directory whose first file is valid and whose second file lacks every
\* line count column was loaded: the rows of the first file are returned
C21_Witness ==
    /\ combined # NoValue
    /\ combined # PyNone
    /\ files[PROMISE_FILENAMES[1]].kind = "csv"
    /\ ~ClaimedFailing(files[PROMISE_FILENAMES[1]])
    /\ files[PROMISE_FILENAMES[2]].kind = "csv"
    /\ ~FeaturesResolvable(files[PROMISE_FILENAMES[2]].frame)
    /\ Len(combined.rows) = NumRows

\* C22: after a batch in which a source failed the caller can tell which
\* sources failed, and a failed source can be told from one whose file
\* does not exist: what the call hands to its caller differs between the
\* two.
C22_FailuresSurfaced ==
    combined # NoValue =>
        \A name \in SourceNames :
            ClaimedFailing(files[name]) =>
                combined # load_promise_datasets([files EXCEPT ![name] = Absent])

\* every file that exists fails: it cannot be read or parsed, or its
\* mapping raises
EverySourceFails(dir) ==
    \A name \in SourceNames :
        \/ dir[name].kind \in {"absent", "unreadable"}
        \/ /\ dir[name].kind = "csv"
           /\ IsRaised(map_promise_to_features(dir[name].frame))

\* C23: load_promise_datasets never raises, whatever the sources are; when
\* no known file exists, or every existing one fails, it returns None.
C23_NoDataNotRaised ==
    combined # NoValue =>
        /\ ~IsRaised(combined)
        /\ EverySourceFails(files) => combined = PyNone

\* a directory with one unreadable file and one file without line count
\* columns was loaded: None is returned
C23_Witness ==
    /\ combined = PyNone
    /\ files[PROMISE_FILENAMES[1]].kind = "unreadable"
    /\ files[PROMISE_FILENAMES[2]].kind = "csv"
    /\ ~FeaturesResolvable(files[PROMISE_FILENAMES[2]].frame)

\* C24: every record returned has an integer label in {0, 1}, whether the
\* source gave it in a defects column or in a label column of arbitrary
\* integers.
C24_LabelsBinary ==
    combined # NoValue /\ combined # PyNone =>
        \A r \in 1..Len(combined.rows) :
            combined.rows[r]["label"] \in {PyInt(0), PyInt(1)}

(***************************************************************************)
(* Properties of upload decoding (SpecUpload).                             *)
(***************************************************************************)
\* C25: for any uploaded content decoding does not fail, and the text
\* handed on is the UTF-8 decoding of the content when that is valid UTF-8
\* and the Latin-1 decoding of the same complete content otherwise, in the
\* Flask handler and in the Streamlit page alike.
C25_DecodingFallback ==
    up_text # NoValue =>
        /\ up_text # UnicodeDecodeError
        /\ up_text = IF Utf8Decode(up_bytes) # UnicodeDecodeError
                     THEN Utf8Decode(up_bytes)
                     ELSE Latin1Decode(up_bytes)


(***************************************************************************)
(* Properties of the training entry points, under SpecMain.               *)
(***************************************************************************)
AtLeastOneRow(result) == "rows" \in DOMAIN result /\ result.rows >= 1

PastPromiseStep == tm_pc \in {"fallback", "train", "save", "done"}

PastFallbackStep == tm_pc \in {"train", "save", "done"}

FrameRefused(frame) ==
    \/ frame.rows < 10
    \/ frame.classes < 2
    \/ frame.nan # "none"
    \/ frame.inf

\* C27: main of src/train_model.py writes the model file only after
\* train_model returned a model; when no dataset is available, the dataset
\* fails to load, the frame has fewer than 10 rows, one class, NaN or
\* infinite features, or training raises, it exits with status 1 and the
\* model file is the one that was there before.
C27_SaveOnlyAfterTraining ==
    tm_entry = "src" =>
        /\ tm_file # tm_file0 => tm_model = ModelFile("new")
        /\ tm_pc = "done" /\ tm_model = NoValue =>
              tm_exit = "1" /\ tm_file = tm_file0
        /\ tm_pc = "done" /\ tm_df = NoValue => tm_model = NoValue
        /\ IsDataset(tm_df) /\ FrameRefused(tm_df) /\ tm_pc # "train" =>
              tm_model = NoValue /\ tm_pc = "done"

C27_Witness ==
    /\ tm_entry = "src"
    /\ tm_pc = "done"
    /\ tm_file0 = ModelFile("old")
    /\ IsDataset(tm_df)
    /\ tm_df.rows = 9
    /\ tm_df.classes = 2
    /\ tm_exit = "1"
    /\ tm_file = tm_file0

(***************************************************************************)
(* Properties of SoftwareDefectDetector, under SpecTarget and              *)
(* SpecDetector.                                                           *)
(***************************************************************************)
ClaimedTargets == <<"label", "defects", "defect", "target", "class", "bug">>

ClaimedAutoDetected(columns) ==
    LET names == {columns[j] : j \in 1..Len(columns)}
        hits == {i \in 1..Len(ClaimedTargets) : ClaimedTargets[i] \in names}
    IN  IF hits = {} THEN columns[Len(columns)]
        ELSE ClaimedTargets[CHOOSE i \in hits : \A h \in hits : i <= h]

\* C28: the target is the target_column given to the constructor whenever
\* one is given; only when it is None is the target auto-detected: the
\* first of label, defects, defect, target, class, bug that is a column,
\* else the last column.
C28_GivenTargetUsed ==
    sd_target # NoValue =>
        IF sd_target_column # PyNone
        THEN sd_target = sd_target_column
        ELSE sd_target = Column(ClaimedAutoDetected(sd_columns))

NameIndex(name) == CHOOSE i \in 1..Len(MODEL_NAMES) : MODEL_NAMES[i] = name

\* C29: after any sequence of train_and_evaluate calls, when
\* best_model_name is not None it is a key of results, best_model is the
\* model stored under it, its F1 score is best_score and no entry of
\* results has a higher F1 score, save_best_model does not fail, and the
\* training of the best model did not raise.
C29_BestModelOfResults ==
    /\ best_model_name # PyNone =>
          /\ HasKey(results, best_model_name.name)
          /\ results[best_model_name.name].model = best_model
          /\ results[best_model_name.name].f1_score = best_score
          /\ \A k \in ModelKeys :
                HasKey(results, k) => results[k].f1_score <= best_score
          /\ ~IsRaised(sd_fitted[NameIndex(best_model_name.name)])
    /\ ~IsRaised(sd_saved)

(***************************************************************************)
(* Properties of the online path, under SpecOnline.                        *)
(***************************************************************************)
\* C30: the key set of the record analyze_code returns is the schema, and
\* metrics_to_features applied to that record holds at position i the
\* record's own value for the i-th schema name (the 0.0 default is never
\* taken), for every text.
C30_OnlineNoDefault ==
    /\ metrics # NoValue => DOMAIN metrics = SchemaNames
    /\ fv_row # NoValue =>
          /\ fv_metrics = metrics
          /\ DOMAIN fv_row.values = 1..Len(SchemaOrder)
          /\ \A i \in 1..Len(SchemaOrder) :
                fv_row.values[i] = metrics[SchemaOrder[i]]

C30_Witness ==
    /\ fv_row # NoValue
    /\ metrics = analyze_code(code_text)
    /\ fv_row.values[1] # Rat(0, 1)
    /\ fv_row.values[2] # Rat(0, 1)
    /\ fv_row.values[1] # fv_row.values[4]
    /\ fv_row.values[4] # fv_row.values[5]
====
